---- MODULE Spec2Model ----
(***************************************************************************)
(* Model of the sniff agent execution pipeline:                            *)
(*   - AnthropicClient.sendMessage, the tool-use loop (llm/anthropic.ts)   *)
(*   - runAgent, the session driver (agent/runner.ts)                      *)
(*   - createSniffServer's webhook handler (server/index.ts)               *)
(*   - LinearPlatform and the Linear webhook helpers (platforms/linear)    *)
(*                                                                         *)
(* Strings that the code joins, trims or tests for emptiness are           *)
(* sequences of characters; SP and NL are the whitespace characters.       *)
(***************************************************************************)
EXTENDS Integers, Sequences, FiniteSets, TLC

VARIABLES
    caller,           \* who called sendMessage: "direct" or "runAgent"
    options,          \* MessageOptions of the sendMessage call in progress
    pc,               \* position of sendMessage
    messages,         \* sendMessage's local message buffer
    totalTokensUsed,  \* sendMessage's local token counter
    finalContent,     \* sendMessage's local final answer
    continueLoop,     \* sendMessage's loop flag
    status,           \* HTTP status of the response received last (0: none)
    data,             \* the ApiResponse handled last
    requests,         \* request bodies handed to fetch, in order
    headers,          \* the anthropic-beta header of each of these requests
    cbLog,            \* callback invocations made by sendMessage, in order
    usageLog,         \* usage of every successful response, in order
    ret,              \* what sendMessage resolved or rejected with
    blocksLeft,       \* content blocks the backend may still send
    rpc,              \* position of runAgent
    run,              \* AgentRunOptions of the runAgent call in progress
    activities,       \* activities delivered by platform.sendActivity, in order
    comments,         \* comments posted by platform.sendResponse, in order
    runResult,        \* AgentRunResult of the run
    caught,           \* the error runAgent's catch block received
    webhookSecret,    \* LinearPlatform.webhookSecret
    agents,           \* SniffServerConfig.agents
    http,             \* the HTTP request handled last, with its response
    trace,            \* stages the handler went through for that request, in order
    parsedEvent,      \* the event parseWebhookEvent returned for that request
    ack,              \* the response written for the request that started the run
    suspended,        \* the locals of the other invocation in flight, at its await
    linearCall        \* the last call of a Linear helper, with its result

clientVars == <<caller, options, pc, messages, totalTokensUsed, finalContent,
                continueLoop, status, data, requests, headers, cbLog, usageLog, ret,
                blocksLeft>>
runVars == <<rpc, run, activities, comments, runResult, caught>>
serverVars == <<webhookSecret, agents, http, trace, parsedEvent>>
restVars == <<ack, suspended, linearCall>>
vars == <<clientVars, runVars, serverVars, restVars>>

-----------------------------------------------------------------------------
(* Bounds *)

\* content blocks the backend sends in one behaviour, all responses together
MaxBlocks == 3
\* content blocks the backend sends to a run the server dispatched
MaxRunBlocks == 1
\* content blocks the backend sends to a run started on its own
MaxSoloBlocks == 2
\* content blocks the backend sends to each of two runs in flight together
MaxPairBlocks == 2
\* comments an issue has when its history is fetched
MaxComments == 3
\* length of a hex digest (64 for SHA-256)
DigestLen == 2

-----------------------------------------------------------------------------
(* Characters and strings *)

SP == "SP"
NL == "NL"
Whitespace == {SP, NL}

EmptyStr == <<>>

RECURSIVE TrimStart(_)
TrimStart(s) ==
    IF s # <<>> /\ Head(s) \in Whitespace THEN TrimStart(Tail(s)) ELSE s

RECURSIVE TrimEnd(_)
TrimEnd(s) ==
    IF s # <<>> /\ s[Len(s)] \in Whitespace
    THEN TrimEnd(SubSeq(s, 1, Len(s) - 1))
    ELSE s

\* String.prototype.trim
Trim(s) == TrimEnd(TrimStart(s))

\* Array.prototype.join('\n') over an array of strings
RECURSIVE JoinNL(_)
JoinNL(ss) ==
    IF ss = <<>> THEN EmptyStr
    ELSE IF Len(ss) = 1 THEN ss[1]
    ELSE ss[1] \o <<NL>> \o JoinNL(Tail(ss))

-----------------------------------------------------------------------------
(* Content blocks, responses and messages of the reasoning backend *)

\* ContentBlock; a missing text, thinking or id is the empty value
Block(t, txt, th, i) == [type |-> t, text |-> txt, thinking |-> th, id |-> i]

Texts == {EmptyStr, <<SP, "a">>}
Thinkings == {EmptyStr, <<"h">>}
ToolUseIds == {"t1", "t2"}
ToolResultTypes == {"web_fetch_tool_result", "mcp_tool_result", "tool_result"}

ContentBlocks ==
    {Block("text", t, EmptyStr, "") : t \in Texts}
    \cup {Block("thinking", EmptyStr, t, "") : t \in Thinkings}
    \cup {Block("tool_use", EmptyStr, EmptyStr, i) : i \in ToolUseIds}
    \cup {Block("server_tool_use", EmptyStr, EmptyStr, "s1"),
          Block("mcp_tool_use", EmptyStr, EmptyStr, "m1")}
    \cup {Block(t, EmptyStr, EmptyStr, "") : t \in ToolResultTypes}

\* a tool result block comes after the server-side tool invocation it answers
WellFormed(c) ==
    \A i \in 1..Len(c) :
        c[i].type \in ToolResultTypes
            => \E j \in 1..(i - 1) : c[j].type \in {"server_tool_use", "mcp_tool_use"}

\* the content arrays of at most n blocks
Contents(n) == {c \in UNION {[1..k -> ContentBlocks] : k \in 0..n} : WellFormed(c)}

StopReasons == {"tool_use", "end_turn"}

Usages == {[input_tokens |-> 1, output_tokens |-> 2],
           [input_tokens |-> 4, output_tokens |-> 0]}

\* ApiResponse
ApiResponse(c, sr, u) == [content |-> c, stop_reason |-> sr, usage |-> u]

NoData == ApiResponse(<<>>, "none", [input_tokens |-> 0, output_tokens |-> 0])

\* non-success statuses the backend answers with
ErrorStatuses == {429, 500}

\* entries of the message buffer: content is a string, the raw content blocks of
\* an assistant turn, or an array of tool results
TextMessage(r, t) ==
    [role |-> r, kind |-> "text", text |-> t, blocks |-> <<>>, results |-> <<>>]
AssistantTurn(content) ==
    [role |-> "assistant", kind |-> "blocks", text |-> EmptyStr,
     blocks |-> content, results |-> <<>>]
ToolResult(b) == [type |-> "tool_result", tool_use_id |-> b.id, content |-> <<>>]
ToolResultsTurn(rs) ==
    [role |-> "user", kind |-> "results", text |-> EmptyStr,
     blocks |-> <<>>, results |-> rs]

\* one callback invocation: onToolUse({id}), onThinking({thinking}), onInterimText(text)
Call(cb, txt, i) == [cb |-> cb, text |-> txt, id |-> i]

MapSeq(s, F(_)) == [i \in 1..Len(s) |-> F(s[i])]

-----------------------------------------------------------------------------
(* MessageOptions *)

Absent == [present |-> FALSE, text |-> EmptyStr]
Str(t) == [present |-> TRUE, text |-> t]
NoConversation == [present |-> FALSE, msgs |-> <<>>]
Conversation(ms) == [present |-> TRUE, msgs |-> ms]

\* JavaScript truthiness: undefined and '' are falsy, every array is truthy
TruthyStr(s) == s.present /\ s.text # EmptyStr
TruthyArr(a) == a.present

AllCallbacks == {"onToolUse", "onThinking", "onInterimText"}

History2 == <<[role |-> "user", content |-> <<"q">>],
              [role |-> "assistant", content |-> <<"r">>]>>

UserMessages == {Absent, Str(EmptyStr), Str(<<"u">>)}
ConversationInputs == {NoConversation, Conversation(History2)}
CallbackSets == {{}, AllCallbacks}

\* an optional array: tools (each tool by its type) or mcpServers (each by name)
NoList == [present |-> FALSE, items |-> <<>>]
List(xs) == [present |-> TRUE, items |-> xs]

\* MessageOptions with tools and mcpServers undefined
MessageOptions(um, cm, cbs) ==
    [userMessage |-> um, conversationMessages |-> cm, callbacks |-> cbs,
     tools |-> NoList, mcpServers |-> NoList]

WithTools(o, ts, ss) == [o EXCEPT !.tools = ts, !.mcpServers = ss]

NoOptions == MessageOptions(Absent, NoConversation, {})

-----------------------------------------------------------------------------
(* AnthropicClient.sendMessage *)

\* what sendMessage resolved or rejected with
Pending ==
    [kind |-> "pending", content |-> EmptyStr, tokensUsed |-> 0,
     name |-> "", statusCode |-> 0]
Resolved(c, t) ==
    [kind |-> "resolved", content |-> c, tokensUsed |-> t, name |-> "", statusCode |-> 0]
\* statusCode 0: the error carries no status code
Rejected(n, sc) ==
    [kind |-> "rejected", content |-> EmptyStr, tokensUsed |-> 0,
     name |-> n, statusCode |-> sc]

\* the input validation: which of the two throws is taken, if any
validateInput(o) ==
    IF ~TruthyStr(o.userMessage) /\ ~TruthyArr(o.conversationMessages) THEN "neither"
    ELSE IF TruthyStr(o.userMessage) /\ TruthyArr(o.conversationMessages) THEN "both"
    ELSE "ok"

ConvToMessage(m) == TextMessage(m.role, m.content)

\* the initial message history
initialMessages(o) ==
    IF TruthyArr(o.conversationMessages)
    THEN MapSeq(o.conversationMessages.msgs, ConvToMessage)
    ELSE <<TextMessage("user", o.userMessage.text)>>

IsToolUse(b) == b.type \in {"tool_use", "server_tool_use", "mcp_tool_use"}
IsClientToolUse(b) == b.type = "tool_use"
IsText(b) == b.type = "text"
IsThinking(b) == b.type = "thinking"
IsToolRelated(b) ==
    b.type \in {"server_tool_use", "mcp_tool_use", "web_fetch_tool_result",
                "mcp_tool_result", "tool_result"}
TextOf(b) == b.text

toolUseBlocks(content) == SelectSeq(content, IsToolUse)
hasToolUse(content) == Len(toolUseBlocks(content)) > 0
hasServerToolUse(content) == \E i \in 1..Len(content) : content[i].type = "server_tool_use"
hasMCPToolUse(content) == \E i \in 1..Len(content) : content[i].type = "mcp_tool_use"

\* the branch of the classification a response takes
classify(d) ==
    IF hasServerToolUse(d.content) \/ hasMCPToolUse(d.content) THEN "server"
    ELSE IF hasToolUse(d.content) /\ d.stop_reason = "tool_use" THEN "client"
    ELSE "final"

\* index of the last tool-related block, 1-based; 0 when there is none
\* (the code's 0-based index plus one, its -1 being 0 here)
\* variant: a tool_use block counts as tool-related
lastToolIndex_countsToolUse(content) ==
    LET S == {i \in 1..Len(content) : IsToolRelated(content[i]) \/ IsToolUse(content[i])}
    IN IF S = {} THEN 0 ELSE CHOOSE i \in S : \A j \in S : j <= i

lastToolIndex(content) ==
    LET S == {i \in 1..Len(content) : IsToolRelated(content[i])}
    IN IF S = {} THEN 0 ELSE CHOOSE i \in S : \A j \in S : j <= i

\* server/MCP branch: the callbacks the block loop invokes, in order
RECURSIVE serverCallsFrom(_, _, _, _)
serverCallsFrom(content, i, last, cbs) ==
    IF i > Len(content) THEN <<>>
    ELSE LET block == content[i]
             interim ==
                 IF block.type = "text" /\ block.text # EmptyStr /\ i < last
                    /\ "onInterimText" \in cbs
                 THEN <<Call("onInterimText", block.text, "")>> ELSE <<>>
             tool ==
                 IF block.type \in {"server_tool_use", "mcp_tool_use"}
                    /\ "onToolUse" \in cbs
                 THEN <<Call("onToolUse", EmptyStr, block.id)>> ELSE <<>>
         IN interim \o tool \o serverCallsFrom(content, i + 1, last, cbs)

serverCalls(content, cbs) == serverCallsFrom(content, 1, lastToolIndex(content), cbs)

\* server/MCP branch: the final content
\* variant: every text block of the response, not only those after the last
\* tool block
serverFinalContent_allText(content) ==
    Trim(JoinNL(MapSeq(SelectSeq(content, IsText), TextOf)))

serverFinalContent(content) ==
    Trim(JoinNL(MapSeq(SelectSeq(SubSeq(content, lastToolIndex(content) + 1, Len(content)),
                                 IsText), TextOf)))

\* client branch: the interim text callback, made before the assistant turn is pushed
\* variant: one callback per text block
clientInterimCalls_perBlock(content, cbs) ==
    IF "onInterimText" \in cbs
    THEN [i \in 1..Len(SelectSeq(content, IsText)) |->
             Call("onInterimText", SelectSeq(content, IsText)[i].text, "")]
    ELSE <<>>

clientInterimCalls(content, cbs) ==
    LET interimTextBlocks == SelectSeq(content, IsText)
        interimText == Trim(JoinNL(MapSeq(interimTextBlocks, TextOf)))
    IN IF Len(interimTextBlocks) > 0 /\ "onInterimText" \in cbs /\ interimText # EmptyStr
       THEN <<Call("onInterimText", interimText, "")>>
       ELSE <<>>

ToolUseCall(b) == Call("onToolUse", EmptyStr, b.id)

\* client branch: the tool use callbacks, made after the assistant turn is pushed
clientToolCalls(content, cbs) ==
    IF "onToolUse" \in cbs
    THEN MapSeq(SelectSeq(toolUseBlocks(content), IsClientToolUse), ToolUseCall)
    ELSE <<>>

\* client branch: the synthetic tool results
toolResults(content) ==
    MapSeq(SelectSeq(toolUseBlocks(content), IsClientToolUse), ToolResult)

ThinkingCall(b) == Call("onThinking", b.thinking, "")
HasThinkingText(b) == b.type = "thinking" /\ b.thinking # EmptyStr

\* final branch: the thinking callbacks
finalCalls(content, cbs) ==
    IF "onThinking" \in cbs
    THEN MapSeq(SelectSeq(content, HasThinkingText), ThinkingCall)
    ELSE <<>>

\* final branch: the final content
\* variant: the joined text is trimmed
finalText_trimmed(content) == Trim(JoinNL(MapSeq(SelectSeq(content, IsText), TextOf)))

finalText(content) == JoinNL(MapSeq(SelectSeq(content, IsText), TextOf))

\* the token usage one response adds
usageOf(d) == d.usage.input_tokens + d.usage.output_tokens

-----------------------------------------------------------------------------
(* Platform events, agents and activities *)

\* PlatformEvent; NullEvent stands for parseWebhookEvent's null
\* NormalizedIssue: an issue's description and url go with its id; state, labels
\* and priority are those parseLinearWebhook gives an issue of a session
Issue(i, t) ==
    [id |-> i, title |-> t, description |-> <<"description of ", i>>,
     state |-> "unknown", labels |-> <<>>, priority |-> 0, url |-> <<"url of ", i>>]
Actor(i, b) == [id |-> i, isBot |-> b]
NoComment == [present |-> FALSE, body |-> EmptyStr]
Comment(b) == [present |-> TRUE, body |-> b]
PlatformEvent(t, i, a, c) ==
    [type |-> t, platform |-> "linear", issue |-> i, actor |-> a, comment |-> c]
NullEvent == PlatformEvent("null", Issue("", EmptyStr), Actor("", FALSE), NoComment)

\* AgentConfig
\* an agent's config: its model section declares no tools and no MCP servers
AgentConfig(i, n) == [id |-> i, name |-> n, tools |-> NoList, mcpServers |-> NoList]
NoAgent == AgentConfig("", "")

\* AgentRunOptions
AgentRunOptions(e, c, sid, h) ==
    [event |-> e, config |-> c, sessionId |-> sid, conversationHistory |-> h]
NoRun == AgentRunOptions(NullEvent, NoAgent, "", NoConversation)

\* `[Agent: ${config.name}]`
AgentHeader(c) == <<"[Agent: ", c.name, "]">>

\* an activity as platform.sendActivity receives it, with its ActivityContext
\* variant: the activity context carries the issue id as session id
Activity_issueAsSession(t, m, tool, r) ==
    [type |-> t, message |-> m, toolName |-> tool,
     issueId |-> r.event.issue.id, sessionId |-> r.event.issue.id]

Activity(t, m, tool, r) ==
    [type |-> t, message |-> m, toolName |-> tool,
     issueId |-> r.event.issue.id, sessionId |-> r.sessionId]

\* runAgent's onToolUse, onThinking and onInterimText: the activity each sends
\* (a tool's name is identified with the id of its block)
callbackActivity(call, r) ==
    IF call.cb = "onToolUse"
    THEN Activity("tool_use", <<"Using ", call.id>>, call.id, r)
    ELSE Activity("thinking", call.text, "", r)

\* variant: the activities of one response are sent last first
callbackActivities_reversed(calls, r) ==
    [i \in 1..Len(calls) |-> callbackActivity(calls[Len(calls) + 1 - i], r)]

callbackActivities(calls, r) ==
    [i \in 1..Len(calls) |-> callbackActivity(calls[i], r)]

\* the running token total after one more response
\* variant: the total is overwritten, not accumulated
addUsage_lastOnly(total, d) == usageOf(d)

addUsage(total, d) == total + usageOf(d)

\* the caller's conversationMessages array once the buffer holds msgs: the
\* buffer is a new array made by map, which the pushes go to
\* variant: the buffer is the caller's array itself
conversationMessagesAfter_aliased(o, msgs) ==
    IF o.conversationMessages.present
    THEN Conversation([i \in 1..Len(msgs) |->
                          [role |-> msgs[i].role, content |-> msgs[i].text]])
    ELSE o.conversationMessages

conversationMessagesAfter(o, msgs) == o.conversationMessages

\* client branch: the two turns pushed onto the message buffer
\* variant: the assistant turn is not recorded
pushToolTurns_noAssistant(msgs, content) ==
    Append(msgs, ToolResultsTurn(toolResults(content)))

\* variant: the tool results are pushed before the assistant turn
pushToolTurns_resultsFirst(msgs, content) ==
    Append(Append(msgs, ToolResultsTurn(toolResults(content))), AssistantTurn(content))

pushToolTurns(msgs, content) ==
    Append(Append(msgs, AssistantTurn(content)), ToolResultsTurn(toolResults(content)))

\* the responses the backend may send while b blocks are left
Responses(b) ==
    {ApiResponse(c, sr, u) : c \in Contents(b), sr \in StopReasons, u \in Usages}

\* betaFeatures.join(',')
RECURSIVE JoinComma(_)
JoinComma(ss) ==
    IF ss = <<>> THEN EmptyStr
    ELSE IF Len(ss) = 1 THEN <<ss[1]>>
    ELSE <<ss[1], ",">> \o JoinComma(Tail(ss))

\* the beta features one iteration detects from the declared tools and servers
\* variant: any declared tool asks for the web fetch feature
betaFeatures_anyTool(o) ==
    (IF o.tools.present /\ Len(o.tools.items) > 0
     THEN <<"web-fetch-2025-09-10">> ELSE <<>>)
    \o (IF o.mcpServers.present /\ Len(o.mcpServers.items) > 0
        THEN <<"mcp-client-2025-04-04">> ELSE <<>>)

betaFeatures(o) ==
    (IF o.tools.present
        /\ \E i \in 1..Len(o.tools.items) : o.tools.items[i] = "web_fetch_20250910"
     THEN <<"web-fetch-2025-09-10">> ELSE <<>>)
    \o (IF o.mcpServers.present /\ Len(o.mcpServers.items) > 0
        THEN <<"mcp-client-2025-04-04">> ELSE <<>>)

\* the anthropic-beta header of the request: set only when a feature is needed
betaHeader(o) ==
    IF Len(betaFeatures(o)) > 0 THEN Str(JoinComma(betaFeatures(o))) ELSE Absent

\* sendMessage from its call to the top of the loop: input validation and the
\* initial message history
sendMessageEnter ==
    /\ pc = "called"
    /\ IF validateInput(options) # "ok"
       THEN /\ pc' = "threw"
            /\ ret' = Rejected("Error", 0)
            /\ UNCHANGED <<messages, totalTokensUsed, finalContent, continueLoop>>
       ELSE /\ pc' = "request"
            /\ messages' = initialMessages(options)
            /\ totalTokensUsed' = 0
            /\ finalContent' = EmptyStr
            /\ continueLoop' = TRUE
            /\ ret' = ret
    /\ UNCHANGED <<caller, options, status, data, requests, headers, cbLog, usageLog,
                   blocksLeft>>
    /\ UNCHANGED <<runVars, serverVars, restVars>>

\* one loop iteration up to the await of fetch: the request body carries the
\* running message buffer
fetchRequest ==
    /\ pc = "request"
    /\ continueLoop
    /\ requests' = Append(requests, messages)
    /\ headers' = Append(headers, betaHeader(options))
    /\ pc' = "awaiting"
    /\ UNCHANGED <<caller, options, messages, totalTokensUsed, finalContent,
                   continueLoop, status, data, cbLog, usageLog, ret, blocksLeft>>
    /\ UNCHANGED <<runVars, serverVars, restVars>>

\* fetch rejects (transport failure): the rejection leaves sendMessage as it is
fetchRejects ==
    /\ pc = "awaiting"
    /\ pc' = "threw"
    /\ ret' = Rejected("TypeError", 0)
    /\ status' = 0
    /\ UNCHANGED <<caller, options, messages, totalTokensUsed, finalContent,
                   continueLoop, data, requests, headers, cbLog, usageLog,
                   blocksLeft>>
    /\ UNCHANGED <<runVars, serverVars, restVars>>

\* the error thrown for a response that is not ok
\* variant: the status is not handed to the error
apiError_noStatus(st) == Rejected("AnthropicApiError", 0)

apiError(st) == Rejected("AnthropicApiError", st)

\* the response is not ok: AnthropicApiError with the status
responseNotOk(st) ==
    /\ pc = "awaiting"
    /\ pc' = "threw"
    /\ ret' = apiError(st)
    /\ status' = st
    /\ UNCHANGED <<caller, options, messages, totalTokensUsed, finalContent,
                   continueLoop, data, requests, headers, cbLog, usageLog,
                   blocksLeft>>
    /\ UNCHANGED <<runVars, serverVars, restVars>>

\* the response is ok: token tracking, classification and the branch taken, up
\* to the next fetch, the return or the throw of an awaited callback
\* (failAt = 0: no callback throws; failAt = k: the k-th callback of this
\* response throws)
responseOk(d, failAt) ==
    /\ pc = "awaiting"
    /\ Len(d.content) <= blocksLeft
    /\ LET branch == classify(d)
           cbs == options.callbacks
           pre == IF branch = "server" THEN serverCalls(d.content, cbs)
                  ELSE IF branch = "client" THEN clientInterimCalls(d.content, cbs)
                  ELSE finalCalls(d.content, cbs)
           post == IF branch = "client" THEN clientToolCalls(d.content, cbs) ELSE <<>>
           calls == pre \o post
           total == addUsage(totalTokensUsed, d)
       IN /\ failAt <= Len(calls)
          /\ status' = 200
          /\ data' = d
          /\ totalTokensUsed' = total
          /\ usageLog' = Append(usageLog, d.usage)
          /\ blocksLeft' = blocksLeft - Len(d.content)
          /\ IF failAt > 0
             THEN /\ cbLog' = cbLog \o SubSeq(calls, 1, failAt)
                  /\ messages' = IF branch = "client" /\ failAt > Len(pre)
                                 THEN Append(messages, AssistantTurn(d.content))
                                 ELSE messages
                  /\ pc' = "threw"
                  /\ ret' = Rejected("CallbackError", 0)
                  /\ UNCHANGED <<finalContent, continueLoop>>
             ELSE /\ cbLog' = cbLog \o calls
                  /\ IF branch = "client"
                     THEN /\ messages' = pushToolTurns(messages, d.content)
                          /\ continueLoop' = TRUE
                          /\ pc' = "request"
                          /\ UNCHANGED <<finalContent, ret>>
                     ELSE /\ finalContent' = IF branch = "server"
                                             THEN serverFinalContent(d.content)
                                             ELSE finalText(d.content)
                          /\ continueLoop' = FALSE
                          /\ pc' = "returned"
                          /\ ret' = Resolved(finalContent', total)
                          /\ UNCHANGED messages
          /\ activities' = IF caller = "runAgent"
                           THEN activities \o callbackActivities(
                                    IF failAt > 0 THEN SubSeq(calls, 1, failAt - 1)
                                    ELSE calls, run)
                           ELSE activities
          /\ options' = [options EXCEPT
                             !.conversationMessages =
                                 conversationMessagesAfter(options, messages')]
    /\ UNCHANGED <<caller, requests, headers>>
    /\ UNCHANGED <<rpc, run, comments, runResult, caught, serverVars, restVars>>

sendMessageStep ==
    \/ sendMessageEnter
    \/ fetchRequest
    \/ fetchRejects
    \/ \E st \in ErrorStatuses : responseNotOk(st)
    \/ \E d \in Responses(blocksLeft), failAt \in 0..blocksLeft : responseOk(d, failAt)


-----------------------------------------------------------------------------
(* runAgent *)

Err(n, sc) == [name |-> n, statusCode |-> sc]
NoErr == Err("", 0)

\* error.message, which names what failed
\* variant: the fallback text for every failure
errorMessage_generic(e) == <<"Agent run failed">>

errorMessage(e) == <<e.name, ToString(e.statusCode)>>

\* AgentRunResult, with the fields that are set
NoResult ==
    [fields |-> {}, success |-> FALSE, response |-> EmptyStr, tokensUsed |-> 0,
     error |-> EmptyStr]
\* variant: the token total is left out
Success_noTokens(c, t) ==
    [fields |-> {"success", "response", "tokensUsed"}, success |-> TRUE,
     response |-> c, tokensUsed |-> 0, error |-> EmptyStr]

Success(c, t) ==
    [fields |-> {"success", "response", "tokensUsed"}, success |-> TRUE,
     response |-> c, tokensUsed |-> t, error |-> EmptyStr]

Failure(m) ==
    [fields |-> {"success", "error"}, success |-> FALSE, response |-> EmptyStr,
     tokensUsed |-> 0, error |-> m]

\* JSON.stringify of the issue's fields: never the empty string
formatIssueForLLM(issue) ==
    <<"{title:", issue.title, ",description:", issue.description, ",state:",
      issue.state, ",labels:", issue.labels, ",priority:", ToString(issue.priority),
      ",url:", issue.url, "}">>

isConversation(r) ==
    r.conversationHistory.present /\ Len(r.conversationHistory.msgs) > 0

\* the conversation passed on: the history, then the comment body if there is one
\* variant: the comment body is put before the history
conversationMessagesOf_commentFirst(r) ==
    IF r.event.comment.present /\ r.event.comment.body # EmptyStr
    THEN <<[role |-> "user", content |-> r.event.comment.body]>>
             \o r.conversationHistory.msgs
    ELSE r.conversationHistory.msgs

conversationMessagesOf(r) ==
    IF r.event.comment.present /\ r.event.comment.body # EmptyStr
    THEN Append(r.conversationHistory.msgs,
                [role |-> "user", content |-> r.event.comment.body])
    ELSE r.conversationHistory.msgs

\* the options runAgent calls sendMessage with
llmOptions(r) ==
    WithTools(IF isConversation(r)
              THEN MessageOptions(Absent, Conversation(conversationMessagesOf(r)),
                                  AllCallbacks)
              ELSE MessageOptions(Str(formatIssueForLLM(r.event.issue)),
                                  NoConversation, AllCallbacks),
              r.config.tools, r.config.mcpServers)

\* the first activity: its message differs by mode
\* variant: the message of the initial mode in both modes
initialActivity_alwaysAnalyzing(r) ==
    Activity("thinking", AgentHeader(r.config) \o <<" Analyzing issue...">>, "", r)

initialActivity(r) ==
    Activity("thinking",
             AgentHeader(r.config) \o
                 (IF isConversation(r) THEN <<" Thinking...">>
                  ELSE <<" Analyzing issue...">>),
             "", r)

\* `[Agent: ${config.name}]\n\n${response.content}`
formattedResponse(r, content) == AgentHeader(r.config) \o <<NL, NL>> \o content

respondingActivity(r, content) ==
    Activity("responding", formattedResponse(r, content), "", r)

\* variant: the failure is reported as a response
errorActivity_asResponse(r, e) ==
    Activity("responding", AgentHeader(r.config) \o <<" Error: ">> \o errorMessage(e),
             "", r)

errorActivity(r, e) ==
    Activity("error", AgentHeader(r.config) \o <<" Error: ">> \o errorMessage(e), "", r)

\* the comments platform.sendResponse has posted once the run succeeded:
\* runAgent never calls platform.sendResponse
commentsAfterSuccess(cs, r, content) == cs

\* the caller's conversationHistory array once runAgent has built its
\* conversationMessages: the spread copies it, the comment is pushed on the copy
\* variant: no copy is made and the comment is pushed on the caller's array
conversationHistoryAfter_aliased(r) ==
    IF isConversation(r) THEN Conversation(conversationMessagesOf(r))
    ELSE r.conversationHistory

conversationHistoryAfter(r) == r.conversationHistory

\* step 1, the initial activity, and on its success steps 2 and 3 up to the call
\* of sendMessage; ok: whether platform.sendActivity resolved
runThinking(ok) ==
    /\ rpc = "start"
    /\ IF ok
       THEN /\ activities' = Append(activities, initialActivity(run))
            /\ rpc' = "llm"
            /\ caller' = "runAgent"
            /\ options' = llmOptions(run)
            /\ run' = [run EXCEPT !.conversationHistory = conversationHistoryAfter(run)]
            /\ pc' = "called"
            /\ UNCHANGED caught
       ELSE /\ rpc' = "catch"
            /\ caught' = Err("LinearApiError", 0)
            /\ UNCHANGED <<activities, caller, options, pc, run>>
    /\ UNCHANGED <<messages, totalTokensUsed, finalContent, continueLoop, status,
                   data, requests, headers, cbLog, usageLog, ret, blocksLeft>>
    /\ UNCHANGED <<comments, runResult, serverVars, restVars>>

\* step 4 after sendMessage resolved: the responding activity and the result
runRespond(ok) ==
    /\ rpc = "llm"
    /\ pc = "returned"
    /\ IF ok
       THEN /\ activities' = Append(activities, respondingActivity(run, ret.content))
            /\ comments' = commentsAfterSuccess(comments, run, ret.content)
            /\ runResult' = Success(ret.content, ret.tokensUsed)
            /\ rpc' = "done"
            /\ UNCHANGED caught
       ELSE /\ rpc' = "catch"
            /\ caught' = Err("LinearApiError", 0)
            /\ UNCHANGED <<activities, comments, runResult>>
    /\ UNCHANGED <<clientVars, run, serverVars, restVars>>

\* the catch block: the error activity, whose own failure is swallowed, and
\* the failure result
runCatch(ok) ==
    /\ \/ rpc = "catch"
       \/ rpc = "llm" /\ pc = "threw"
    /\ LET e == IF rpc = "catch" THEN caught ELSE Err(ret.name, ret.statusCode)
       IN /\ activities' = IF ok THEN Append(activities, errorActivity(run, e))
                           ELSE activities
          /\ runResult' = Failure(errorMessage(e))
          /\ caught' = e
    /\ rpc' = "done"
    /\ UNCHANGED <<clientVars, run, comments, serverVars, restVars>>

runAgentStep ==
    \/ \E ok \in BOOLEAN : runThinking(ok)
    \/ \E ok \in BOOLEAN : runRespond(ok)
    \/ \E ok \in BOOLEAN : runCatch(ok)

-----------------------------------------------------------------------------
(* Linear webhooks: verification and parsing *)

HexDigits == {"0", "1"}

\* crypto.createHmac('sha256', secret).update(body).digest('hex'): a string of
\* DigestLen hex digits that depends on the secret and on the body
Hmac(secret, body) ==
    [i \in 1..DigestLen |-> IF i = 1 THEN (IF secret = "k" THEN "1" ELSE "0")
                            ELSE body.digit]

\* crypto.timingSafeEqual throws a RangeError when the lengths differ
timingSafeEqual(a, b) ==
    IF Len(a) # Len(b) THEN "throws" ELSE IF a = b THEN "true" ELSE "false"

\* verifyLinearWebhook: "true", "false" or "throws"; '' is falsy
verifyLinearWebhook(payload, signature, secret) ==
    IF secret = "" \/ signature = EmptyStr THEN "false"
    ELSE timingSafeEqual(signature, Hmac(secret, payload))

\* LinearPlatform.verifyWebhook; webhookSecret "" stands for null
verifyWebhook(secret, payload, signature) ==
    IF secret = "" THEN "true"
    ELSE verifyLinearWebhook(payload, signature, secret)

\* a request body: text that is not JSON, the JSON value null, or a
\* LinearWebhookPayload object
Body(j, t, a, sess, act, actType, d, digit) ==
    [json |-> j, type |-> t, action |-> a, agentSession |-> sess,
     agentActivity |-> act, contentType |-> actType, data |-> d, digit |-> digit]

\* the empty body, which is not JSON
EmptyBody == Body("invalid", "", "", FALSE, FALSE, "", FALSE, "0")
IssueCreate == Body("object", "Issue", "create", FALSE, FALSE, "", TRUE, "0")
\* a body whose stream fails before its end: readBody rejects
UnreadableBody == Body("unreadable", "", "", FALSE, FALSE, "", FALSE, "0")

Bodies ==
    {EmptyBody,
     Body("null", "", "", FALSE, FALSE, "", FALSE, "1"),
     Body("object", "Other", "create", FALSE, FALSE, "", FALSE, "0"),
     Body("object", "AgentSession", "created", TRUE, FALSE, "", FALSE, "1"),
     Body("object", "AgentActivity", "created", TRUE, TRUE, "prompt", FALSE, "0"),
     Body("object", "AgentActivity", "created", TRUE, TRUE, "thought", FALSE, "1"),
     Body("object", "AgentActivity", "created", TRUE, TRUE, "action", FALSE, "0"),
     Body("object", "AgentActivity", "created", TRUE, TRUE, "response", FALSE, "1"),
     Body("object", "AgentActivity", "created", TRUE, TRUE, "error", FALSE, "0"),
     IssueCreate,
     Body("object", "Issue", "update", FALSE, FALSE, "", TRUE, "1"),
     Body("object", "Issue", "create", FALSE, FALSE, "", FALSE, "1")}

\* parseLinearWebhook's result
Parsed(e) == [throws |-> FALSE, event |-> e]
ParseThrows == [throws |-> TRUE, event |-> NullEvent]

\* parseLinearWebhook; reading .type of null throws a TypeError
\* LinearPlatform.sendActivity: the content type of the activity it creates
activityContentType(t) ==
    CASE t = "thinking" -> "thought"
      [] t = "tool_use" -> "action"
      [] t = "responding" -> "response"
      [] t = "error" -> "error"
      [] OTHER -> "thought"

\* variant: an activity of any content type gives a follow-up event
parseLinearWebhook_anyActivity(payload) ==
    IF payload.json = "null" THEN ParseThrows
    ELSE IF payload.type = "AgentSession" /\ payload.agentSession
    THEN Parsed(PlatformEvent("mention", Issue("I1", <<"Session issue">>),
                              Actor("U1", FALSE), Comment(<<"@agent">>)))
    ELSE IF payload.type = "AgentActivity" /\ payload.agentActivity
            /\ payload.agentSession
    THEN Parsed(PlatformEvent("comment_created", Issue("I1", <<"Session issue">>),
                              Actor("U1", FALSE), Comment(<<"more">>)))
    ELSE IF payload.type = "Issue" /\ payload.data
    THEN Parsed(PlatformEvent(IF payload.action = "create" THEN "issue_created"
                              ELSE "issue_updated",
                              Issue("I2", <<"Login broken">>), Actor("U2", FALSE),
                              NoComment))
    ELSE Parsed(NullEvent)

parseLinearWebhook(payload) ==
    IF payload.json = "null" THEN ParseThrows
    ELSE IF payload.type = "AgentSession" /\ payload.agentSession
    THEN Parsed(PlatformEvent("mention", Issue("I1", <<"Session issue">>),
                              Actor("U1", FALSE), Comment(<<"@agent">>)))
    ELSE IF payload.type = "AgentActivity" /\ payload.agentActivity
            /\ payload.agentSession
    THEN IF payload.contentType # "prompt" THEN Parsed(NullEvent)
         ELSE Parsed(PlatformEvent("comment_created", Issue("I1", <<"Session issue">>),
                                   Actor("U1", FALSE), Comment(<<"more">>)))
    ELSE IF payload.type = "Issue" /\ payload.data
    THEN Parsed(PlatformEvent(IF payload.action = "create" THEN "issue_created"
                              ELSE "issue_updated",
                              Issue("I2", <<"Login broken">>), Actor("U2", FALSE),
                              NoComment))
    ELSE Parsed(NullEvent)

\* LinearPlatform.shouldProcessEvent
\* variant: no actor filter
shouldProcessEvent_all(event) == TRUE

shouldProcessEvent(event) == IF event.actor.isBot THEN FALSE ELSE TRUE

-----------------------------------------------------------------------------
(* Linear helpers: state types, webhook payloads, conversation history *)

\* the record of a call of a helper with its argument and what it returned
LinearCall(fn, arg, result) == [fn |-> fn, arg |-> arg, result |-> result]

\* state.type strings Linear may send: its own vocabulary, other spellings and
\* cases, an unknown word, and "" for a type that is missing
StateTypes ==
    {"triage", "backlog", "unstarted", "started", "completed", "canceled",
     "cancelled", "Started", "done", ""}

\* issue.state: absent, or a state with its type
NoState == [present |-> FALSE, type |-> ""]
State(t) == [present |-> TRUE, type |-> t]

\* variant: an unknown state type is handed on as it is
mapStateType_passThrough(linearStateType) == linearStateType

mapStateType(linearStateType) ==
    CASE linearStateType = "backlog" -> "backlog"
      [] linearStateType = "unstarted" -> "unstarted"
      [] linearStateType = "started" -> "started"
      [] linearStateType = "completed" -> "completed"
      [] linearStateType \in {"canceled", "cancelled"} -> "cancelled"
      [] OTHER -> "unstarted"

\* parseLinearWebhook's Issue branch: mapStateType(issue.state?.type || 'unstarted')
webhookStateType(state) ==
    mapStateType(IF state.present /\ state.type # "" THEN state.type ELSE "unstarted")

\* getIssue: mapStateType(issue.state.type), the state being always there
getIssueStateType(state) == mapStateType(state.type)

\* a webhook for an issue arrives and its state is normalized
parseIssueState(state) ==
    /\ linearCall' = LinearCall("parseLinearWebhook.stateType", state,
                                webhookStateType(state))
    /\ UNCHANGED <<clientVars, runVars, serverVars, ack, suspended>>

\* getIssue is called and the state of the issue fetched is normalized
getIssue(state) ==
    /\ linearCall' = LinearCall("getIssue.stateType", state, getIssueStateType(state))
    /\ UNCHANGED <<clientVars, runVars, serverVars, ack, suspended>>

\* webhook payloads: JSON null, a JSON number, and objects with any type,
\* action and nested shapes
LinearPayloads ==
    {Body("null", "", "", FALSE, FALSE, "", FALSE, "0"),
     Body("number", "", "", FALSE, FALSE, "", FALSE, "0")}
    \cup {Body("object", t, a, sess, act, ct, d, "0") :
              t \in {"AgentSession", "AgentActivity", "Issue", "Comment"},
              a \in {"create", "update", "remove"},
              sess \in BOOLEAN, act \in BOOLEAN, ct \in {"prompt", "thought"},
              d \in BOOLEAN}

\* parseLinearWebhook is called on a payload
parseWebhookEvent(payload) ==
    /\ linearCall' = LinearCall("parseLinearWebhook", payload,
                                parseLinearWebhook(payload))
    /\ UNCHANGED <<clientVars, runVars, serverVars, ack, suspended>>

\* a comment as GET_ISSUE returns it; createdAt is a point in time
LinearComment(i, t, me) == [id |-> i, body |-> <<"body of ", i>>, createdAt |-> t,
                            isMe |-> me]

CommentPool ==
    {LinearComment("c1", 2, FALSE), LinearComment("c2", 1, TRUE),
     LinearComment("c3", 2, TRUE), LinearComment("c4", 3, FALSE)}

\* the comments of an issue, in any order the source returns them
CommentLists(n) ==
    {cs \in UNION {[1..k -> CommentPool] : k \in 0..n} :
         \A i, j \in 1..Len(cs) : i # j => cs[i] # cs[j]}

\* the ConversationMessage pushed for a comment
toMessage(comment) ==
    [role |-> IF comment.isMe THEN "assistant" ELSE "user",
     content |-> comment.body,
     author |-> [id |-> comment.id, isBot |-> comment.isMe],
     timestamp |-> comment.createdAt]

\* Array.prototype.sort with (a, b) => a.timestamp - b.timestamp: stable
RECURSIVE insertByTimestamp(_, _)
insertByTimestamp(m, sorted) ==
    IF sorted = <<>> THEN <<m>>
    ELSE IF m.timestamp - Head(sorted).timestamp < 0 THEN <<m>> \o sorted
    ELSE <<Head(sorted)>> \o insertByTimestamp(m, Tail(sorted))

RECURSIVE sortFrom(_, _)
sortFrom(ms, sorted) ==
    IF ms = <<>> THEN sorted
    ELSE sortFrom(Tail(ms), insertByTimestamp(Head(ms), sorted))

\* variant: the messages are returned in the order of the source
sortByTimestamp_unsorted(ms) == ms

sortByTimestamp(ms) == sortFrom(ms, <<>>)

getConversationHistory(comments_) ==
    sortByTimestamp([i \in 1..Len(comments_) |-> toMessage(comments_[i])])

\* getConversationHistory is called for an issue with these comments
fetchHistory(cs) ==
    /\ linearCall' = LinearCall("getConversationHistory", cs, getConversationHistory(cs))
    /\ UNCHANGED <<clientVars, runVars, serverVars, ack, suspended>>

\* timestamps as Linear writes them; "" for a field that is missing
T1 == "2024-05-01T10:00:00.000Z"
T2 == "2024-05-02T10:00:00.000Z"

\* new Date(s): the instant the string denotes, in days of May 2024; Invalid
\* Date for undefined
InvalidDate == [valid |-> FALSE, time |-> 0]
newDate(s) ==
    IF s = T1 THEN [valid |-> TRUE, time |-> 1]
    ELSE IF s = T2 THEN [valid |-> TRUE, time |-> 2]
    ELSE InvalidDate

\* the objects of a LinearWebhookPayload, with the fields the event is built
\* from; present FALSE stands for an object that is missing
NoPerson == [present |-> FALSE, id |-> "", name |-> ""]
Person(i, n) == [present |-> TRUE, id |-> i, name |-> n]
NoRawIssue ==
    [present |-> FALSE, id |-> "", title |-> EmptyStr, createdAt |-> "",
     updatedAt |-> "", creator |-> NoPerson]
RawIssue(i, t, c, u, p) ==
    [present |-> TRUE, id |-> i, title |-> t, createdAt |-> c, updatedAt |-> u,
     creator |-> p]
NoRawSession ==
    [present |-> FALSE, createdAt |-> "", updatedAt |-> "", creator |-> NoPerson,
     issue |-> NoRawIssue]
RawSession(c, u, p, i) ==
    [present |-> TRUE, createdAt |-> c, updatedAt |-> u, creator |-> p, issue |-> i]
NoRawActivity == [present |-> FALSE, id |-> "", createdAt |-> "", contentType |-> ""]
RawActivity(i, c, ct) == [present |-> TRUE, id |-> i, createdAt |-> c, contentType |-> ct]
Webhook(t, a, sess, act, d) ==
    [type |-> t, action |-> a, agentSession |-> sess, agentActivity |-> act, data |-> d]

\* the issue inside an agent session: the interface gives it no timestamps, a
\* payload may carry them
SessionIssues ==
    {RawIssue("I1", <<"Session issue">>, c, u, NoPerson) :
         c \in {"", T1}, u \in {"", T1}}
RawSessions ==
    {RawSession(c, T2, Person("U1", "Ann"), i) : c \in {T1, T2}, i \in SessionIssues}
IssueDatas ==
    {RawIssue("I2", <<"Login broken">>, T1, u, p) :
         u \in {T1, T2}, p \in {NoPerson, Person("U2", "Bob")}}

Webhooks ==
    {Webhook("AgentSession", "created", sess, NoRawActivity, NoRawIssue) :
         sess \in RawSessions}
    \cup {Webhook("AgentActivity", "created", sess, RawActivity("A1", T2, ct), NoRawIssue) :
              sess \in RawSessions, ct \in {"prompt", "thought"}}
    \cup {Webhook("Issue", a, NoRawSession, NoRawActivity, d) :
              a \in {"create", "update"}, d \in IssueDatas}
    \cup {Webhook("Comment", "create", NoRawSession, NoRawActivity, d) : d \in IssueDatas}

\* the branch of parseLinearWebhook a payload takes; "null" for a payload that
\* gives no event
webhookBranch(webhook) ==
    IF webhook.type = "AgentSession" /\ webhook.agentSession.present THEN "AgentSession"
    ELSE IF webhook.type = "AgentActivity" /\ webhook.agentActivity.present
            /\ webhook.agentSession.present
    THEN (IF webhook.agentActivity.contentType # "prompt" THEN "null"
          ELSE "AgentActivity")
    ELSE IF webhook.type = "Issue" /\ webhook.data.present THEN "Issue"
    ELSE "null"

\* the NormalizedIssue each branch builds: id, title and the two timestamps
normalizedIssue(webhook) ==
    LET session == webhook.agentSession
        activity == webhook.agentActivity
        branch == webhookBranch(webhook)
    IN IF branch = "AgentSession"
       THEN [id |-> session.issue.id, title |-> session.issue.title,
             createdAt |-> newDate(session.createdAt),
             updatedAt |-> newDate(session.updatedAt)]
       ELSE IF branch = "AgentActivity"
       THEN [id |-> session.issue.id, title |-> session.issue.title,
             createdAt |-> newDate(session.createdAt),
             updatedAt |-> newDate(activity.createdAt)]
       ELSE [id |-> webhook.data.id, title |-> webhook.data.title,
             createdAt |-> newDate(webhook.data.createdAt),
             updatedAt |-> newDate(webhook.data.updatedAt)]

\* the PlatformActor each branch builds
\* the event's actor
\* variant: an issue without creator is attributed to a bot
actor_unknownIsBot(webhook) ==
    IF webhookBranch(webhook) \in {"AgentSession", "AgentActivity"}
    THEN [id |-> webhook.agentSession.creator.id,
          name |-> webhook.agentSession.creator.name, isBot |-> FALSE]
    ELSE IF webhook.data.creator.present
    THEN [id |-> webhook.data.creator.id, name |-> webhook.data.creator.name,
          isBot |-> FALSE]
    ELSE [id |-> "unknown", name |-> "Unknown", isBot |-> TRUE]

actor(webhook) ==
    IF webhookBranch(webhook) \in {"AgentSession", "AgentActivity"}
    THEN [id |-> webhook.agentSession.creator.id,
          name |-> webhook.agentSession.creator.name, isBot |-> FALSE]
    ELSE IF webhook.data.creator.present
    THEN [id |-> webhook.data.creator.id, name |-> webhook.data.creator.name,
          isBot |-> FALSE]
    ELSE [id |-> "unknown", name |-> "Unknown", isBot |-> FALSE]

\* the type of the event each branch builds
eventType(webhook) ==
    LET branch == webhookBranch(webhook)
    IN IF branch = "AgentSession" THEN "mention"
       ELSE IF branch = "AgentActivity" THEN "comment_created"
       ELSE IF webhook.action = "create" THEN "issue_created"
       ELSE "issue_updated"

\* parseLinearWebhook is called on a payload: the event it returns, with its
\* issue and actor; type "null" for null
parseWebhookFields(webhook) ==
    /\ linearCall' =
           LinearCall("parseLinearWebhook.event", webhook,
                      IF webhookBranch(webhook) = "null"
                      THEN [type |-> "null", issue |-> <<>>, actor |-> <<>>]
                      ELSE [type |-> eventType(webhook),
                            issue |-> normalizedIssue(webhook),
                            actor |-> actor(webhook)])
    /\ UNCHANGED <<clientVars, runVars, serverVars, ack, suspended>>

\* the secrets LinearPlatform is constructed with; "" for none
WebhookSecrets == {"", "k"}

\* LinearPlatform.verifyWebhook is called on a raw body and a signature
verifySignature(secret, payload, signature) ==
    /\ linearCall' = LinearCall("verifyWebhook",
                                [secret |-> secret, payload |-> payload,
                                 signature |-> signature],
                                verifyWebhook(secret, payload, signature))
    /\ UNCHANGED <<clientVars, runVars, serverVars, ack, suspended>>

-----------------------------------------------------------------------------
(* createSniffServer: the request handler *)

Agent1 == AgentConfig("a1", "Triage")
Agent2 == AgentConfig("a2", "Docs")

\* agents[0] || null
\* variant: the agent configured last
findAgentForEvent_last(agts, event) == IF Len(agts) > 0 THEN agts[Len(agts)] ELSE NoAgent

findAgentForEvent(agts, event) == IF Len(agts) > 0 THEN agts[1] ELSE NoAgent

\* IncomingMessage: the url is the path split after '/webhook/'
Request(m, u, sig, b) == [method |-> m, url |-> u, signature |-> sig, body |-> b]

\* what the handler did with a request: the response written, the stages gone
\* through, the event parsed, and the agent a run is dispatched to, if any
Outcome(st, b, stages, e, a) ==
    [status |-> st, body |-> b, stages |-> stages, event |-> e, agent |-> a]

NoResponse == Outcome(0, <<>>, <<>>, NullEvent, NoAgent)

\* the handler from the event parseWebhookEvent returned on
\* variant: the run is dispatched before the response is written
afterParse_dispatchFirst(event, agts, stages) ==
    IF event = NullEvent
    THEN Outcome(200, <<"status", "ignored">>, stages \o <<"respond">>, NullEvent, NoAgent)
    ELSE IF ~shouldProcessEvent(event)
    THEN Outcome(200, <<"status", "skipped">>,
                 stages \o <<"shouldProcess", "respond">>, event, NoAgent)
    ELSE LET agent == findAgentForEvent(agts, event)
         IN IF agent = NoAgent
            THEN Outcome(200, <<"status", "no_matching_agent">>,
                         stages \o <<"shouldProcess", "select", "respond">>,
                         event, NoAgent)
            ELSE Outcome(200, <<"status", "processing">>,
                         stages \o <<"shouldProcess", "select", "sessionId",
                                     "runAgent", "respond">>,
                         event, agent)

\* variant: the dispatch throws inside the try block and the catch block
\* answers a second time
afterParse_dispatchThrows(event, agts, stages) ==
    IF event = NullEvent
    THEN Outcome(200, <<"status", "ignored">>, stages \o <<"respond">>, NullEvent, NoAgent)
    ELSE IF ~shouldProcessEvent(event)
    THEN Outcome(200, <<"status", "skipped">>,
                 stages \o <<"shouldProcess", "respond">>, event, NoAgent)
    ELSE LET agent == findAgentForEvent(agts, event)
         IN IF agent = NoAgent
            THEN Outcome(200, <<"status", "no_matching_agent">>,
                         stages \o <<"shouldProcess", "select", "respond">>,
                         event, NoAgent)
            ELSE Outcome(500, <<"error", "Internal server error">>,
                         stages \o <<"shouldProcess", "select", "respond",
                                     "sessionId", "runAgent", "respond">>,
                         event, NoAgent)

afterParse(event, agts, stages) ==
    IF event = NullEvent
    THEN Outcome(200, <<"status", "ignored">>, stages \o <<"respond">>, NullEvent, NoAgent)
    ELSE IF ~shouldProcessEvent(event)
    THEN Outcome(200, <<"status", "skipped">>,
                 stages \o <<"shouldProcess", "respond">>, event, NoAgent)
    ELSE LET agent == findAgentForEvent(agts, event)
         IN IF agent = NoAgent
            THEN Outcome(200, <<"status", "no_matching_agent">>,
                         stages \o <<"shouldProcess", "select", "respond">>,
                         event, NoAgent)
            ELSE Outcome(200, <<"status", "processing">>,
                         stages \o <<"shouldProcess", "select", "respond",
                                     "sessionId", "runAgent">>,
                         event, agent)

\* the catch block of the handler
\* variant: the response names the exception
InternalError_withDetail(stages) ==
    Outcome(500, <<"error", "Internal server error", stages[Len(stages)]>>,
            stages \o <<"respond">>, NullEvent, NoAgent)

InternalError(stages) ==
    Outcome(500, <<"error", "Internal server error">>, stages \o <<"respond">>,
            NullEvent, NoAgent)

\* the webhook branch of the handler for a configured platform
webhook(req, secret, agts) ==
    LET verified == verifyWebhook(secret, req.body, req.signature)
    IN IF req.body.json = "unreadable" THEN InternalError(<<"readBody">>)
       ELSE IF verified = "throws" THEN InternalError(<<"readBody", "verify">>)
       ELSE IF verified = "false"
       THEN Outcome(401, <<"error", "Invalid webhook signature">>,
                    <<"readBody", "verify", "respond">>, NullEvent, NoAgent)
       ELSE IF req.body.json = "invalid"
       THEN InternalError(<<"readBody", "verify", "JSON.parse">>)
       ELSE LET parsed == parseLinearWebhook(req.body)
                stages == <<"readBody", "verify", "JSON.parse", "parse">>
            IN IF parsed.throws THEN InternalError(stages)
               ELSE afterParse(parsed.event, agts, stages)

\* the names in platformMap
Platforms == {"linear"}

\* the response for a path segment platformMap has no platform for
\* variant: the answer of an unknown route
unknownPlatform_notFound(platformName) ==
    Outcome(404, <<"error", "Not found">>, <<"respond">>, NullEvent, NoAgent)

unknownPlatform(platformName) ==
    Outcome(404, <<"error", "Unknown platform: ", platformName>>, <<"respond">>,
            NullEvent, NoAgent)

\* the request handler
handler(req, secret, agts) ==
    IF req.method = "GET" /\ req.url = <<"/health">>
    THEN Outcome(200, <<"status", "ok">>, <<"respond">>, NullEvent, NoAgent)
    ELSE IF req.method = "POST" /\ req.url[1] = "/webhook/"
    THEN IF req.url[2] \notin Platforms
         THEN unknownPlatform(req.url[2])
         ELSE webhook(req, secret, agts)
    ELSE Outcome(404, <<"error", "Not found">>, <<"respond">>, NullEvent, NoAgent)

\* generateSessionId: an id no earlier run has
generateSessionId(previous) == IF previous = "s1" THEN "s2" ELSE "s1"

\* the response written for the request that started an invocation; none yet
NoAck == [status |-> 0, body |-> <<>>]

\* the locals of one runAgent invocation and of its sendMessage call: they live
\* in the invocation's own closures, the variables of this module holding those
\* of the invocation that is running
Invocation(c, o, p, m, t, f, cl, st, d, rq, hd, cb, ul, r, bl, rp, rn, as, rr, cg, ak) ==
    [caller |-> c, options |-> o, pc |-> p, messages |-> m, totalTokensUsed |-> t,
     finalContent |-> f, continueLoop |-> cl, status |-> st, data |-> d,
     requests |-> rq, headers |-> hd, cbLog |-> cb, usageLog |-> ul, ret |-> r, blocksLeft |-> bl,
     rpc |-> rp, run |-> rn, activities |-> as, runResult |-> rr, caught |-> cg,
     ack |-> ak]

\* an invocation that has not started
IdleInvocation(b) ==
    Invocation("none", NoOptions, "idle", <<>>, 0, EmptyStr, TRUE, 0, NoData,
               <<>>, <<>>, <<>>, <<>>, Pending, b, "idle", NoRun, <<>>, NoResult,
               NoErr,
               NoAck)

\* the session id generated last
previousSessionId ==
    IF run.sessionId # "" THEN run.sessionId ELSE suspended.run.sessionId

\* one request, from its arrival to the handler's return: the response and,
\* for an accepted event, the start of runAgent up to its first await
serve(req, out) ==
    /\ http' = [request |-> req, status |-> out.status, body |-> out.body]
    /\ trace' = out.stages
    /\ parsedEvent' = out.event
    /\ IF out.agent # NoAgent
       THEN /\ run' = AgentRunOptions(out.event, out.agent,
                                      generateSessionId(previousSessionId), NoConversation)
            /\ rpc' = "start"
            /\ ack' = [status |-> out.status, body |-> out.body]
       ELSE UNCHANGED <<run, rpc, ack>>
    /\ UNCHANGED <<activities, comments, runResult, caught, webhookSecret, agents,
                   clientVars, suspended, linearCall>>

\* signatures a sender may attach to a body: none, the right one, one made with
\* another secret, one too short, one too long
Signatures(body) ==
    {EmptyStr, Hmac("k", body), Hmac("x", body), <<"1">>, Hmac("k", body) \o <<"0">>}

Requests ==
    {Request("GET", <<"/health">>, EmptyStr, EmptyBody),
     Request("GET", <<"/webhook/", "linear">>, EmptyStr, EmptyBody),
     Request("POST", <<"/webhook/", "github">>, Hmac("k", IssueCreate), IssueCreate),
     Request("POST", <<"/webhook/", "linear?x=1">>, EmptyStr, UnreadableBody),
     Request("POST", <<"/webhook/", "">>, EmptyStr, EmptyBody),
     Request("POST", <<"/webhook/", "linear">>, Hmac("k", UnreadableBody),
             UnreadableBody)}
    \cup UNION {{Request("POST", <<"/webhook/", "linear">>, sig, b) :
                     sig \in Signatures(b)} : b \in Bodies}

\* the server handles one request; requests are taken until a run is dispatched
handleRequest(req) ==
    /\ rpc = "idle"
    /\ serve(req, handler(req, webhookSecret, agents))


\* the token counter an invocation finds when it is resumed: its own local
\* variant: one counter shared by all invocations
ownTotal_shared(inv) == totalTokensUsed

ownTotal(inv) == inv.totalTokensUsed

\* the event loop resumes the other invocation: at an await the running
\* invocation is suspended with its locals and the suspended one goes on
resumeOther ==
    /\ suspended' = Invocation(caller, options, pc, messages, totalTokensUsed,
                               finalContent, continueLoop, status, data, requests,
                               headers, cbLog, usageLog, ret, blocksLeft, rpc, run, activities,
                               runResult, caught, ack)
    /\ caller' = suspended.caller
    /\ options' = suspended.options
    /\ pc' = suspended.pc
    /\ messages' = suspended.messages
    /\ totalTokensUsed' = ownTotal(suspended)
    /\ finalContent' = suspended.finalContent
    /\ continueLoop' = suspended.continueLoop
    /\ status' = suspended.status
    /\ data' = suspended.data
    /\ requests' = suspended.requests
    /\ headers' = suspended.headers
    /\ cbLog' = suspended.cbLog
    /\ usageLog' = suspended.usageLog
    /\ ret' = suspended.ret
    /\ blocksLeft' = suspended.blocksLeft
    /\ rpc' = suspended.rpc
    /\ run' = suspended.run
    /\ activities' = suspended.activities
    /\ runResult' = suspended.runResult
    /\ caught' = suspended.caught
    /\ ack' = suspended.ack
    /\ UNCHANGED <<comments, serverVars, linearCall>>

\* the requests sent while runs are in flight
PairRequests ==
    {Request("GET", <<"/health">>, EmptyStr, EmptyBody),
     Request("POST", <<"/webhook/", "linear">>, EmptyStr, IssueCreate),
     Request("POST", <<"/webhook/", "linear">>, EmptyStr,
             Body("object", "AgentSession", "created", TRUE, FALSE, "", FALSE, "1")),
     Request("POST", <<"/webhook/", "linear">>, EmptyStr,
             Body("object", "Other", "create", FALSE, FALSE, "", FALSE, "0"))}

\* the server handles one request whatever the invocations in flight do; a
\* request that starts a run is taken while an invocation is free to hold it
\* variant: a request is handled once the runs started before have settled
frontDoor_awaitsRuns(req) ==
    LET out == handler(req, webhookSecret, agents)
    IN /\ rpc \in {"idle", "done"}
       /\ suspended.rpc \in {"idle", "done"}
       /\ out.agent = NoAgent \/ rpc = "idle"
       /\ serve(req, out)

frontDoor(req) ==
    LET out == handler(req, webhookSecret, agents)
    IN /\ out.agent = NoAgent \/ rpc = "idle"
       /\ serve(req, out)

\* the responses the backend sends to runs in flight together
PairResponses ==
    {ApiResponse(<<Block("tool_use", EmptyStr, EmptyStr, "t1")>>, "tool_use",
                 [input_tokens |-> 1, output_tokens |-> 2]),
     ApiResponse(<<Block("text", <<SP, "a">>, EmptyStr, "")>>, "end_turn",
                 [input_tokens |-> 4, output_tokens |-> 0]),
     ApiResponse(<<>>, "end_turn", [input_tokens |-> 4, output_tokens |-> 0])}

\* the events a Platform's parseWebhookEvent may return (PlatformActor.isBot is
\* any boolean), beyond those parseLinearWebhook builds
PlatformEvents ==
    {PlatformEvent(t, Issue("I3", <<"Flaky test">>), Actor(a, b), NoComment) :
         t \in {"issue_created", "mention"}, a \in {"U3"}, b \in BOOLEAN}

EventBody == Body("object", "Event", "", FALSE, FALSE, "", FALSE, "0")

\* the handler for a request whose payload the platform parsed to event e
routeEvent(e) ==
    /\ rpc = "idle"
    /\ serve(Request("POST", <<"/webhook/", "linear">>, EmptyStr, EventBody),
             afterParse(e, agents, <<"readBody", "verify", "JSON.parse", "parse">>))

-----------------------------------------------------------------------------
(* Specifications *)

\* no Linear helper called yet
NoCall == [fn |-> "none", arg |-> <<>>, result |-> <<>>]

IdleRest ==
    /\ ack = NoAck
    /\ suspended = IdleInvocation(0)
    /\ linearCall = NoCall

NoRequest == Request("", <<>>, EmptyStr, EmptyBody)

IdleRun ==
    /\ rpc = "idle"
    /\ run = NoRun
    /\ activities = <<>>
    /\ comments = <<>>
    /\ runResult = NoResult
    /\ caught = NoErr

IdleClient ==
    /\ caller = "none"
    /\ options = NoOptions
    /\ pc = "idle"
    /\ messages = <<>>
    /\ totalTokensUsed = 0
    /\ finalContent = EmptyStr
    /\ continueLoop = TRUE
    /\ status = 0
    /\ data = NoData
    /\ requests = <<>>
    /\ headers = <<>>
    /\ cbLog = <<>>
    /\ usageLog = <<>>
    /\ ret = Pending

\* sendMessage called directly, with any options
InitClient ==
    /\ caller = "direct"
    /\ options \in {MessageOptions(um, cm, cbs) :
                        um \in UserMessages, cm \in ConversationInputs,
                        cbs \in CallbackSets}
    /\ pc = "called"
    /\ messages = <<>>
    /\ totalTokensUsed = 0
    /\ finalContent = EmptyStr
    /\ continueLoop = TRUE
    /\ status = 0
    /\ data = NoData
    /\ requests = <<>>
    /\ headers = <<>>
    /\ cbLog = <<>>
    /\ usageLog = <<>>
    /\ ret = Pending
    /\ blocksLeft = MaxBlocks
    /\ IdleRun
    /\ webhookSecret = ""
    /\ agents = <<>>
    /\ http = [request |-> NoRequest, status |-> 0, body |-> <<>>]
    /\ trace = <<>>
    /\ parsedEvent = NullEvent
    /\ IdleRest

NextClient == sendMessageStep

\* sendMessage called directly with one user message and any declaration of
\* tools and MCP servers
ToolLists ==
    {NoList, List(<<>>), List(<<"web_search_20250305">>), List(<<"web_fetch_20250910">>),
     List(<<"web_search_20250305", "web_fetch_20250910">>)}
ServerLists == {NoList, List(<<>>), List(<<"linear">>), List(<<"linear", "github">>)}

InitHeaders ==
    /\ caller = "direct"
    /\ options \in {WithTools(MessageOptions(Str(<<"u">>), NoConversation, AllCallbacks),
                               ts, ss) : ts \in ToolLists, ss \in ServerLists}
    /\ pc = "called"
    /\ messages = <<>>
    /\ totalTokensUsed = 0
    /\ finalContent = EmptyStr
    /\ continueLoop = TRUE
    /\ status = 0
    /\ data = NoData
    /\ requests = <<>>
    /\ headers = <<>>
    /\ cbLog = <<>>
    /\ usageLog = <<>>
    /\ ret = Pending
    /\ blocksLeft = MaxSoloBlocks
    /\ IdleRun
    /\ webhookSecret = ""
    /\ agents = <<>>
    /\ http = [request |-> NoRequest, status |-> 0, body |-> <<>>]
    /\ trace = <<>>
    /\ parsedEvent = NullEvent
    /\ IdleRest

SpecHeaders == InitHeaders /\ [][NextClient]_vars

SpecClient == InitClient /\ [][NextClient]_vars

\* the server after start(): LINEAR_WEBHOOK_SECRET set or not, agents
\* configured or not
InitServer ==
    /\ IdleClient
    /\ blocksLeft = MaxRunBlocks
    /\ IdleRun
    /\ webhookSecret \in {"", "k"}
    /\ agents \in {<<>>, <<Agent1, Agent2>>}
    /\ http = [request |-> NoRequest, status |-> 0, body |-> <<>>]
    /\ trace = <<>>
    /\ parsedEvent = NullEvent
    /\ IdleRest

NextServer ==
    \/ \E req \in Requests : handleRequest(req)
    \/ runAgentStep
    \/ sendMessageStep

SpecServer == InitServer /\ [][NextServer]_vars

\* the server with a platform whose events are any PlatformEvents
InitRouter == InitServer /\ webhookSecret = ""

NextRouter ==
    \/ \E e \in PlatformEvents \cup {NullEvent} : routeEvent(e)
    \/ runAgentStep
    \/ sendMessageStep

SpecRouter == InitRouter /\ [][NextRouter]_vars

\* runAgent called on its own: a fresh issue, a mention with an empty history,
\* or a follow-up prompt with the session's history
RunInputs ==
    {AgentRunOptions(PlatformEvent("issue_created",
                                   [Issue("I2", <<"Login broken">>) EXCEPT
                                        !.state = "In Progress", !.labels = <<"bug">>,
                                        !.priority = 2],
                                   Actor("U2", FALSE), NoComment),
                     Agent1, "s1", NoConversation),
     AgentRunOptions(PlatformEvent("comment_created", Issue("I1", <<"Session issue">>),
                                   Actor("U1", FALSE), Comment(EmptyStr)),
                     Agent2, "s2", Conversation(History2)),
     AgentRunOptions(PlatformEvent("mention", Issue("I1", <<"Session issue">>),
                                   Actor("U1", FALSE), Comment(<<"@agent">>)),
                     Agent2, "s1", Conversation(<<>>)),
     AgentRunOptions(PlatformEvent("comment_created", Issue("I1", <<"Session issue">>),
                                   Actor("U1", FALSE), Comment(<<"more">>)),
                     Agent1, "s2", Conversation(History2))}

InitRun ==
    /\ IdleClient
    /\ blocksLeft = MaxSoloBlocks
    /\ rpc = "start"
    /\ run \in RunInputs
    /\ activities = <<>>
    /\ comments = <<>>
    /\ runResult = NoResult
    /\ caught = NoErr
    /\ webhookSecret = ""
    /\ agents = <<Agent1, Agent2>>
    /\ http = [request |-> NoRequest, status |-> 0, body |-> <<>>]
    /\ trace = <<>>
    /\ parsedEvent = NullEvent
    /\ IdleRest

NextRun ==
    \/ runAgentStep
    \/ sendMessageStep

SpecRun == InitRun /\ [][NextRun]_vars

\* the server with two invocations to hold runs, which interleave at their
\* awaits
InitPair ==
    /\ IdleClient
    /\ blocksLeft = MaxPairBlocks
    /\ IdleRun
    /\ webhookSecret = ""
    /\ agents = <<Agent1, Agent2>>
    /\ http = [request |-> NoRequest, status |-> 0, body |-> <<>>]
    /\ trace = <<>>
    /\ parsedEvent = NullEvent
    /\ ack = NoAck
    /\ suspended = IdleInvocation(MaxPairBlocks)
    /\ linearCall = NoCall

NextPair ==
    \/ \E req \in PairRequests : frontDoor(req)
    \/ resumeOther
    \/ runAgentStep
    \/ sendMessageEnter
    \/ fetchRequest
    \/ fetchRejects
    \/ responseNotOk(500)
    \/ \E d \in PairResponses : responseOk(d, 0)

SpecPair == InitPair /\ [][NextPair]_vars

\* the Linear helpers called on their own
InitLinear ==
    /\ IdleClient
    /\ blocksLeft = 0
    /\ IdleRun
    /\ webhookSecret = ""
    /\ agents = <<>>
    /\ http = [request |-> NoRequest, status |-> 0, body |-> <<>>]
    /\ trace = <<>>
    /\ parsedEvent = NullEvent
    /\ IdleRest

NextLinear ==
    \/ \E st \in {NoState} \cup {State(t) : t \in StateTypes} : parseIssueState(st)
    \/ \E t \in StateTypes : getIssue(State(t))
    \/ \E payload \in LinearPayloads : parseWebhookEvent(payload)
    \/ \E cs \in CommentLists(MaxComments) : fetchHistory(cs)
    \/ \E w \in Webhooks : parseWebhookFields(w)
    \/ \E secret \in WebhookSecrets, payload \in Bodies :
           \E signature \in Signatures(payload) :
               verifySignature(secret, payload, signature)

SpecLinear == InitLinear /\ [][NextLinear]_vars

-----------------------------------------------------------------------------
(* Vocabulary of the claims *)

ServerToolKinds == {"server_tool_use", "mcp_tool_use"}

HasKind(c, K) == \E i \in 1..Len(c) : c[i].type \in K
IndicesOf(c, K) == {i \in 1..Len(c) : c[i].type \in K}

\* the elements of a set of numbers, ascending
RECURSIVE Ascending(_)
Ascending(I) ==
    IF I = {} THEN <<>>
    ELSE LET m == CHOOSE x \in I : \A y \in I : x <= y
         IN <<m>> \o Ascending(I \ {m})

\* a response that waits for caller-managed tools: stop_reason 'tool_use', a
\* tool_use block, no server_tool_use or mcp_tool_use block
CallerToolWait(d) ==
    /\ d.stop_reason = "tool_use"
    /\ HasKind(d.content, {"tool_use"})
    /\ ~HasKind(d.content, ServerToolKinds)

\* the texts of the text blocks after the last server-side tool invocation or
\* tool result block, found in one pass from the left
RECURSIVE TextsAfterLastTool(_, _)
TextsAfterLastTool(c, acc) ==
    IF c = <<>> THEN acc
    ELSE LET b == Head(c)
         IN TextsAfterLastTool(Tail(c),
                IF b.type \in ServerToolKinds \cup ToolResultTypes THEN <<>>
                ELSE IF b.type = "text" THEN Append(acc, b.text)
                ELSE acc)

RECURSIVE SumUsage(_)
SumUsage(us) ==
    IF us = <<>> THEN 0
    ELSE Head(us).input_tokens + Head(us).output_tokens + SumUsage(Tail(us))

\* the loop goes on to another request
GoesOn == pc \in {"request", "awaiting"}

InTrace(stage) == \E i \in 1..Len(trace) : trace[i] = stage

Processing == http.status = 200 /\ http.body = <<"status", "processing">>

LinearWebhook ==
    http.request.method = "POST" /\ http.request.url = <<"/webhook/", "linear">>

-----------------------------------------------------------------------------
(* Claims *)

\* C1: after a response that waits for caller-managed tools, the next request's
\* message buffer is the previous request's buffer plus two entries: an
\* assistant turn holding the response's raw content, then a user turn holding
\* one tool_result with empty content per tool_use block, keyed by the block's
\* id, in the blocks' order.
C1_ToolTurnsAppended ==
    (pc = "awaiting" /\ Len(requests) >= 2 /\ CallerToolWait(data)) =>
        LET prev == requests[Len(requests) - 1]
            next == requests[Len(requests)]
            asc == Ascending(IndicesOf(data.content, {"tool_use"}))
        IN /\ Len(next) = Len(prev) + 2
           /\ SubSeq(next, 1, Len(prev)) = prev
           /\ next[Len(prev) + 1].role = "assistant"
           /\ next[Len(prev) + 1].kind = "blocks"
           /\ next[Len(prev) + 1].blocks = data.content
           /\ next[Len(prev) + 2].role = "user"
           /\ next[Len(prev) + 2].kind = "results"
           /\ next[Len(prev) + 2].results =
                  [k \in 1..Len(asc) |->
                      [type |-> "tool_result", tool_use_id |-> data.content[asc[k]].id,
                       content |-> <<>>]]

\* C1 witness: a second request was issued after a response with two tool_use
\* blocks of different ids and a text block
C1_Witness ==
    /\ pc = "awaiting"
    /\ Len(requests) >= 2
    /\ CallerToolWait(data)
    /\ Cardinality(IndicesOf(data.content, {"tool_use"})) = 2
    /\ Cardinality({data.content[i].id : i \in IndicesOf(data.content, {"tool_use"})}) = 2

C3_ContinueIffToolWait ==
    status = 200 => (GoesOn <=> CallerToolWait(data))

\* C4: the tokensUsed returned is the sum of input and output tokens over all
\* the iterations of the call.
C4_TokensAreSummed ==
    pc = "returned" =>
        /\ ret.kind = "resolved"
        /\ Len(usageLog) = Len(requests)
        /\ ret.tokensUsed = SumUsage(usageLog)

\* C4 witness: a call that returned after three iterations with differing usage
C4_Witness ==
    /\ pc = "returned"
    /\ Len(usageLog) = 3
    /\ usageLog[1] # usageLog[2]

\* C5: sendMessage fails before any request when both userMessage and
\* conversationMessages are supplied or neither is, and goes on to the first
\* request when exactly one is supplied.
C5_ExactlyOneSupplied ==
    (caller = "direct" /\ pc # "called") =>
        IF options.userMessage.present = options.conversationMessages.present
        THEN pc = "threw" /\ requests = <<>>
        ELSE ~(pc = "threw" /\ requests = <<>>)

\* C6: a response that is not ok fails the whole call with an AnthropicApiError
\* carrying the status; no further request is issued and neither content nor a
\* token total is returned, however many iterations succeeded before.
C6_NotOkFailsCall ==
    status \notin {0, 200} =>
        /\ pc = "threw"
        /\ ret.kind = "rejected"
        /\ ret.name = "AnthropicApiError"
        /\ ret.statusCode = status
        /\ ret.content = EmptyStr /\ ret.tokensUsed = 0
        /\ Len(requests) = Len(usageLog) + 1

\* C6 witness: the third request is answered 500 after two good iterations
C6_Witness ==
    /\ status = 500
    /\ Len(usageLog) = 2
    /\ totalTokensUsed > 0

\* C7: with a webhook secret configured, every POST /webhook/linear whose
\* signature is invalid (missing, wrong, of any length) is answered 401
\* {"error":"Invalid webhook signature"}; its body is not JSON-parsed nor
\* passed to parseWebhookEvent, and no run is started.
C7_InvalidSignatureIs401 ==
    (/\ webhookSecret # ""
     /\ LinearWebhook
     /\ http.request.body.json # "unreadable"
     /\ http.request.signature # Hmac(webhookSecret, http.request.body)) =>
        /\ http.status = 401
        /\ http.body = <<"error", "Invalid webhook signature">>
        /\ ~InTrace("JSON.parse") /\ ~InTrace("parse") /\ ~InTrace("runAgent")
        /\ rpc = "idle"

\* C8: a run is started for a request if and only if its response is 200
\* {"status":"processing"}; it is started after that response was written, the
\* stages being verify, parse, shouldProcess, select, respond, dispatch in
\* this order.
C8_RunIffProcessing ==
    /\ (rpc # "idle") <=> Processing
    /\ InTrace("runAgent") <=> Processing
    /\ InTrace("sessionId") <=> Processing
    /\ Processing =>
           trace = <<"readBody", "verify", "JSON.parse", "parse", "shouldProcess",
                     "select", "respond", "sessionId", "runAgent">>
    /\ http.status # 0 => Cardinality({i \in 1..Len(trace) : trace[i] = "respond"}) = 1

\* C8 witness: an accepted request whose run has finished
C8_Witness == Processing /\ rpc = "done"

\* C9: an event whose actor is a bot is never dispatched: shouldProcessEvent
\* returns false for it, the response is 200 {"status":"skipped"}, no session id
\* is minted and runAgent is not called.
C9_BotEventsSkipped ==
    /\ \A e \in PlatformEvents : e.actor.isBot => shouldProcessEvent(e) = FALSE
    /\ (http.status # 0 /\ parsedEvent.actor.isBot) =>
           /\ http.status = 200
           /\ http.body = <<"status", "skipped">>
           /\ ~InTrace("sessionId") /\ ~InTrace("runAgent")
           /\ rpc = "idle" /\ run = NoRun /\ activities = <<>>

\* C9 witness: a bot's event was answered while agents are configured
C9_Witness ==
    /\ http.status = 200
    /\ parsedEvent.actor.isBot
    /\ agents # <<>>

\* C10: a successful run reports exactly one 'responding' activity, the final
\* answer under the agent header, and then posts exactly one comment through
\* platform.sendResponse, the answer prefixed with the agent's name.
C10_OneFinalComment ==
    (rpc = "done" /\ runResult.success) =>
        /\ Cardinality({i \in 1..Len(activities) : activities[i].type = "responding"}) = 1
        /\ activities[Len(activities)].type = "responding"
        /\ activities[Len(activities)].message =
               <<"[Agent: ", run.config.name, "]", NL, NL>> \o runResult.response
        /\ Len(comments) = 1
        /\ comments[1].issueId = run.event.issue.id
        /\ SubSeq(comments[1].body, 1, 3) = <<"[Agent: ", run.config.name, "]">>

\* the message of the failure that took the run into its catch block: the
\* rejection of sendMessage, or else that of platform.sendActivity
OriginalFailure ==
    IF pc = "threw" THEN <<ret.name, ToString(ret.statusCode)>>
    ELSE <<"LinearApiError", "0">>

ActivitiesOfType(T) == {i \in 1..Len(activities) : activities[i].type \in T}

\* C11: when a step of a run fails, runAgent reports at most one 'error'
\* activity, the last activity of the run, carrying the original failure
\* message under the agent header; whether or not that report got through, the
\* run ends resolved with success false and the original message as error, and
\* a run that has ended always has a result.
C11_FailureIsReported ==
    /\ (rpc = "done") <=> (runResult # NoResult)
    /\ rpc = "catch" => caught.name = "LinearApiError"
    /\ (rpc = "done" /\ ~runResult.success) =>
           /\ runResult.error = OriginalFailure
           /\ Cardinality(ActivitiesOfType({"error"})) <= 1
           /\ ActivitiesOfType({"responding"}) = {}
           /\ ActivitiesOfType({"error"}) # {} =>
                  /\ activities[Len(activities)].type = "error"
                  /\ activities[Len(activities)].message =
                         <<"[Agent: ", run.config.name, "]", " Error: ">>
                             \o OriginalFailure

\* C11 witness: a progress callback failed in the second iteration and the
\* error activity was delivered
C11_Witness ==
    /\ rpc = "done"
    /\ ~runResult.success
    /\ pc = "threw"
    /\ ret.name = "CallbackError"
    /\ Len(requests) = 2
    /\ ActivitiesOfType({"error"}) # {}

\* C12: a run's result has one of two shapes: success true with response and
\* tokensUsed set and no error, where response is the answer sendMessage
\* returned, without the header, and tokensUsed its token total; or success
\* false with error set and neither response nor tokensUsed.
C12_ResultShapes ==
    rpc = "done" =>
        \/ /\ runResult.success
           /\ runResult.fields = {"success", "response", "tokensUsed"}
           /\ pc = "returned"
           /\ runResult.response = ret.content
           /\ runResult.tokensUsed = ret.tokensUsed
           /\ runResult.tokensUsed = SumUsage(usageLog)
           /\ activities[Len(activities)].message # runResult.response
        \/ /\ ~runResult.success
           /\ runResult.fields = {"success", "error"}
           /\ runResult.error # EmptyStr

\* C12 witness: a successful run of two iterations with a non-empty answer
C12_Witness ==
    /\ rpc = "done"
    /\ runResult.success
    /\ runResult.response # EmptyStr
    /\ Len(usageLog) = 2

\* the activity runAgent's callback sends for one callback invocation
ActivityMatches(a, call) ==
    /\ a.sessionId = run.sessionId
    /\ a.issueId = run.event.issue.id
    /\ IF call.cb = "onToolUse"
       THEN a.type = "tool_use" /\ a.toolName = call.id /\ a.message = <<"Using ", call.id>>
       ELSE a.type = "thinking" /\ a.toolName = "" /\ a.message = call.text

\* C13: in a run, the activities between the initial 'thinking' activity and
\* the final 'responding' or 'error' activity are the callback invocations of
\* the sendMessage loop, one activity per invocation, in the same order (the
\* invocation whose report failed, ending the loop, has no activity).
C13_ActivitiesFollowCallbacks ==
    caller = "runAgent" =>
        LET n == Len(activities)
            final == IF activities[n].type \in {"responding", "error"} THEN 1 ELSE 0
            mid == SubSeq(activities, 2, n - final)
            failed == IF pc = "threw" /\ ret.name = "CallbackError" THEN 1 ELSE 0
        IN /\ activities[1].type = "thinking"
           /\ Len(mid) = Len(cbLog) - failed
           /\ \A i \in 1..Len(mid) : ActivityMatches(mid[i], cbLog[i])

\* C13 witness: a successful run in which interim text and then a tool call
\* were reported
C13_Witness ==
    /\ rpc = "done"
    /\ runResult.success
    /\ Len(cbLog) = 2
    /\ cbLog[1].cb = "onInterimText"
    /\ cbLog[2].cb = "onToolUse"
    /\ Len(activities) = 4

\* C16: a session id is minted once for a request answered 200 processing
\* and not at all for any other request; every activity of the run, from the
\* initial thinking to the final responding or error activity, carries that
\* session id and the id of the issue of the triggering event.
C16_OneSessionPerAcceptedEvent ==
    /\ Cardinality({i \in 1..Len(trace) : trace[i] = "sessionId"}) =
           (IF Processing THEN 1 ELSE 0)
    /\ (run.sessionId # "") <=> Processing
    /\ Processing => run.event = parsedEvent
    /\ ~Processing => activities = <<>>
    /\ \A i \in 1..Len(activities) :
           /\ activities[i].sessionId = run.sessionId
           /\ activities[i].issueId = parsedEvent.issue.id

\* C16 witness: an accepted event whose run reported a progress activity
\* between its first and its last activity
C16_Witness ==
    /\ Processing
    /\ rpc = "done"
    /\ Len(activities) = 3
    /\ activities[1].type = "thinking"
    /\ activities[3].type \in {"responding", "error"}

\* the invocation that is running, as a record of its locals
Running ==
    Invocation(caller, options, pc, messages, totalTokensUsed, finalContent,
               continueLoop, status, data, requests, headers, cbLog, usageLog, ret,
               blocksLeft, rpc, run, activities, runResult, caught, ack)

IsPrefix(p, q) == Len(p) <= Len(q) /\ SubSeq(q, 1, Len(p)) = p

\* the serialization of an issue for the model: its title, description, state,
\* labels, priority and url, and neither its id nor its timestamps
IssueJson(issue) ==
    <<"{title:", issue.title, ",description:", issue.description, ",state:",
      issue.state, ",labels:", issue.labels, ",priority:", ToString(issue.priority),
      ",url:", issue.url, "}">>

\* what an invocation would hold had it run alone: a token total summed from
\* its own responses, requests that start with its own event's issue and grow
\* by the two turns of each tool round, a buffer that extends its last request,
\* activities under its own session and issue, a result from its own call
RunsAsAlone(v) ==
    /\ v.totalTokensUsed = SumUsage(v.usageLog)
    /\ Len(v.requests) >= 1 =>
           v.requests[1] =
               <<[role |-> "user", kind |-> "text",
                  text |-> IssueJson(v.run.event.issue),
                  blocks |-> <<>>, results |-> <<>>]>>
    /\ \A k \in 2..Len(v.requests) :
           /\ Len(v.requests[k]) = Len(v.requests[k - 1]) + 2
           /\ IsPrefix(v.requests[k - 1], v.requests[k])
    /\ Len(v.requests) >= 1 => IsPrefix(v.requests[Len(v.requests)], v.messages)
    /\ Len(v.requests) \in {Len(v.usageLog), Len(v.usageLog) + 1}
    /\ \A i \in 1..Len(v.activities) :
           /\ v.activities[i].sessionId = v.run.sessionId
           /\ v.activities[i].issueId = v.run.event.issue.id
    /\ (v.rpc = "done" /\ v.runResult.success) =>
           /\ v.runResult.tokensUsed = SumUsage(v.usageLog)
           /\ v.runResult.response = v.ret.content
           /\ v.activities[Len(v.activities)].message =
                  <<"[Agent: ", v.run.config.name, "]", NL, NL>> \o v.ret.content

\* C14: with two runs in flight, interleaved at every await, a step of one
\* run leaves the other's locals (message buffer, token total, session id and
\* the rest) as they are, and each run's requests, activities and result are
\* what they would be had it run alone.
C14_RunsDoNotInterfere ==
    /\ [](RunsAsAlone(Running) /\ RunsAsAlone(suspended))
    /\ [][\/ suspended' = suspended
          \/ suspended' = Running /\ Running' = suspended]_vars

\* C14 witness: both runs are in their second iteration, with token totals and
\* buffers of their own
C14_Witness ==
    /\ rpc = "llm" /\ suspended.rpc = "llm"
    /\ Len(requests) = 2 /\ Len(suspended.requests) = 2
    /\ pc = "awaiting" /\ suspended.pc = "awaiting"
    /\ messages # suspended.messages
    /\ run.sessionId # suspended.run.sessionId

ProcessingAck == [status |-> 200, body |-> <<"status", "processing">>]

\* C15: the response of an accepted webhook is written before its run and no
\* run changes it: whether a run fails, ends or stays at an await for ever, its
\* request's response stays 200 processing, only the handler writes responses,
\* and the server still handles every request, starting the run of an accepted
\* one while an invocation is free to hold it.
C15_ResponseNotCoupledToRun ==
    /\ [](/\ (rpc # "idle") <=> (ack = ProcessingAck)
          /\ (suspended.rpc # "idle") <=> (suspended.ack = ProcessingAck)
          /\ \A req \in PairRequests :
                 (handler(req, webhookSecret, agents).agent = NoAgent \/ rpc = "idle")
                     => ENABLED frontDoor(req)
          /\ ENABLED resumeOther)
    /\ [][\/ http' = http /\ trace' = trace
          \/ \E req \in PairRequests : frontDoor(req)]_vars

\* C15 witness: while the first run is still waiting for the backend, a later
\* request was accepted and its run has failed
C15_Witness ==
    /\ suspended.rpc = "llm" /\ suspended.pc = "awaiting"
    /\ rpc = "done" /\ ~runResult.success
    /\ Processing
    /\ run.event # suspended.run.event

\* the five normalized state types
NormalizedStateTypes == {"backlog", "unstarted", "started", "completed", "cancelled"}

StateTypeCalls == {"parseLinearWebhook.stateType", "getIssue.stateType"}

\* the provider's state string of a call; "" when the state is missing
ProviderStateType == IF linearCall.arg.present THEN linearCall.arg.type ELSE ""

\* C17: for every provider state string, from a webhook or from getIssue, the
\* normalized stateType is one of the five, and a string outside the five (or
\* a missing state) gives unstarted.
C17_UnknownStatesAreUnstarted ==
    linearCall.fn \in StateTypeCalls =>
        /\ linearCall.result \in NormalizedStateTypes
        /\ ProviderStateType \notin NormalizedStateTypes
               => linearCall.result = "unstarted"

\* C17 amended: for every provider state string, from a webhook or from
\* getIssue, the normalized stateType is one of the five: each of the five
\* gives itself, Linear's own spelling 'canceled' gives cancelled, and every
\* other string (or a missing state) gives unstarted.
C17_StateTypeNormalized ==
    linearCall.fn \in StateTypeCalls =>
        /\ linearCall.result \in NormalizedStateTypes
        /\ ProviderStateType \in NormalizedStateTypes
               => linearCall.result = ProviderStateType
        /\ ProviderStateType = "canceled" => linearCall.result = "cancelled"
        /\ ProviderStateType \notin NormalizedStateTypes \cup {"canceled"}
               => linearCall.result = "unstarted"

\* C17 witness: getIssue met a state type that is not in the vocabulary
C17_Witness ==
    /\ linearCall.fn = "getIssue.stateType"
    /\ linearCall.arg.type = "triage"
    /\ linearCall.result = "unstarted"

\* C18: whatever the order of the comments the source returns,
\* getConversationHistory returns one message per comment, with role
\* 'assistant' for a comment whose user isMe and 'user' otherwise, and the
\* messages' timestamps never decrease.
C18_HistorySortedPermutation ==
    linearCall.fn = "getConversationHistory" =>
        LET cs == linearCall.arg
            ms == linearCall.result
        IN /\ Len(ms) = Len(cs)
           /\ \A k \in 1..Len(cs) :
                  /\ Cardinality({i \in 1..Len(ms) : ms[i].content = cs[k].body}) = 1
                  /\ \E i \in 1..Len(ms) :
                         /\ ms[i].content = cs[k].body
                         /\ ms[i].timestamp = cs[k].createdAt
                         /\ ms[i].role = (IF cs[k].isMe THEN "assistant" ELSE "user")
           /\ \A i, j \in 1..Len(ms) : i < j => ms[i].timestamp <= ms[j].timestamp

\* C18 witness: three comments came latest first, two of them of the same time
C18_Witness ==
    /\ linearCall.fn = "getConversationHistory"
    /\ Len(linearCall.arg) = 3
    /\ linearCall.arg[1].createdAt > linearCall.arg[2].createdAt
    /\ linearCall.arg[2].createdAt = linearCall.arg[3].createdAt
    /\ linearCall.result # [i \in 1..3 |-> toMessage(linearCall.arg[i])]

\* the event type the discriminators of a payload stand for; "null" for none
DiscriminatedType(p) ==
    IF p.type = "AgentSession" /\ p.agentSession THEN "mention"
    ELSE IF p.type = "AgentActivity" /\ p.agentActivity /\ p.agentSession
    THEN (IF p.contentType = "prompt" THEN "comment_created" ELSE "null")
    ELSE IF p.type = "Issue" /\ p.data
    THEN (IF p.action = "create" THEN "issue_created" ELSE "issue_updated")
    ELSE "null"

\* C19: parseLinearWebhook maps every payload to one outcome: 'mention',
\* 'comment_created', 'issue_created' or 'issue_updated' as its type, action
\* and nested shapes say, and null for every other payload.
C19_OneOutcomePerPayload ==
    linearCall.fn = "parseLinearWebhook" =>
        /\ ~linearCall.result.throws
        /\ linearCall.result.event.type = DiscriminatedType(linearCall.arg)
        /\ linearCall.result.event.type \in
               {"mention", "comment_created", "issue_created", "issue_updated", "null"}

\* C20: a verified webhook whose body is valid JSON and matches none of the
\* discriminators, JSON null included, is answered 200 {"status":"ignored"},
\* never 500, and starts no run.
C20_UnknownShapesAreIgnored ==
    (/\ LinearWebhook
     /\ verifyWebhook(webhookSecret, http.request.body, http.request.signature) = "true"
     /\ http.request.body.json \notin {"invalid", "unreadable"}
     /\ DiscriminatedType(http.request.body) = "null") =>
        /\ http.status = 200
        /\ http.body = <<"status", "ignored">>
        /\ ~InTrace("runAgent")
        /\ rpc = "idle"

\* C21: verifyWebhook returns true for every body and signature when no secret
\* is configured; with a secret it returns true exactly when the signature is
\* the hex HMAC-SHA256 of the raw body under that secret, and returns false,
\* without throwing, for every other signature, the empty one included.
C21_VerifyIsTotal ==
    linearCall.fn = "verifyWebhook" =>
        LET a == linearCall.arg
        IN linearCall.result =
               (IF a.secret = "" THEN "true"
                ELSE IF a.signature = Hmac(a.secret, a.payload) THEN "true"
                ELSE "false")

\* C22: the loop has no iteration bound. It ends once a response that is not
\* a wait for caller-managed tools has been handled or a request has failed;
\* and for every response that is such a wait, however many iterations came
\* before, the buffer grows by two entries and the next request is issued, so
\* a backend that always answers with such a wait is asked for ever.
C22_LoopRunsWhileToolWait ==
    /\ [](/\ (status = 200 /\ ~CallerToolWait(data)) => pc \in {"returned", "threw"}
          /\ status \notin {0, 200} => pc = "threw"
          /\ pc = "request" => ENABLED fetchRequest)
    /\ [][(pc = "awaiting" /\ status' = 200 /\ CallerToolWait(data'))
              => /\ pc' = "request"
                 /\ continueLoop'
                 /\ Len(messages') = Len(messages) + 2]_vars

\* the issue and the actor of a payload that gives an event
RawIssueOf(w) == IF w.type = "Issue" THEN w.data ELSE w.agentSession.issue
RawActorOf(w) == IF w.type = "Issue" THEN w.data.creator ELSE w.agentSession.creator

\* C23: for every payload parseLinearWebhook turns into an event, of each of
\* the three kinds, the event's issue id, title, createdAt and updatedAt are
\* those of the issue in the payload, and the actor's id and name are those of
\* the actor in the payload.
C23_FieldsRoundTrip ==
    (linearCall.fn = "parseLinearWebhook.event" /\ linearCall.result.type # "null") =>
        LET w == linearCall.arg
            e == linearCall.result
        IN /\ e.issue.id = RawIssueOf(w).id
           /\ e.issue.title = RawIssueOf(w).title
           /\ e.issue.createdAt = newDate(RawIssueOf(w).createdAt)
           /\ e.issue.updatedAt = newDate(RawIssueOf(w).updatedAt)
           /\ RawActorOf(w).present =>
                  /\ e.actor.id = RawActorOf(w).id
                  /\ e.actor.name = RawActorOf(w).name

\* a step of the handler's try block throws for the request handled last:
\* reading the body, JSON.parse of a body that is not JSON, or
\* parseWebhookEvent of a payload it cannot read
StepThrows ==
    /\ LinearWebhook
    /\ \/ http.request.body.json = "unreadable"
       \/ /\ verifyWebhook(webhookSecret, http.request.body, http.request.signature)
                 = "true"
          /\ http.request.body.json \in {"invalid", "null"}

\* C24: when reading the body, JSON.parse or parseWebhookEvent throws during
\* a webhook request, the response is 500 {"error":"Internal server error"};
\* every 500 has exactly this body, with no detail of the exception, and no
\* session id is minted and no run started for that request.
C24_ExceptionsAreGeneric500 ==
    /\ StepThrows => http.status = 500
    /\ http.status = 500 =>
           /\ http.body = <<"error", "Internal server error">>
           /\ trace[Len(trace)] = "respond"
           /\ ~InTrace("sessionId") /\ ~InTrace("runAgent")
           /\ rpc = "idle" /\ run = NoRun /\ activities = <<>>

\* C24 witness: with a secret configured, a correctly signed body that is not
\* JSON was answered
C24_Witness ==
    /\ webhookSecret # ""
    /\ http.status = 500
    /\ http.request.body.json = "invalid"
    /\ InTrace("JSON.parse")
    /\ agents # <<>>

\* C25: a POST to /webhook/{segment} whose segment names no configured
\* platform is answered 404 {"error":"Unknown platform: {segment}"}; the
\* handler returns there, without reading the body, verifying, parsing or
\* starting a run.
C25_UnknownPlatformIs404 ==
    (/\ http.request.method = "POST"
     /\ http.request.url[1] = "/webhook/"
     /\ http.request.url[2] # "linear") =>
        /\ http.status = 404
        /\ http.body = <<"error", "Unknown platform: ", http.request.url[2]>>
        /\ trace = <<"respond">>
        /\ rpc = "idle" /\ run = NoRun /\ activities = <<>>

\* C25 witness: a signed issue webhook for a platform that is not configured
\* was answered, with a secret and agents configured
C25_Witness ==
    /\ http.status = 404
    /\ http.request.method = "POST"
    /\ http.request.url = <<"/webhook/", "github">>
    /\ http.request.body = IssueCreate
    /\ webhookSecret # "" /\ agents # <<>>

\* the request handled last is a verified Linear webhook whose payload stands
\* for an event
AcceptedEvent ==
    /\ LinearWebhook
    /\ verifyWebhook(webhookSecret, http.request.body, http.request.signature) = "true"
    /\ http.request.body.json = "object"
    /\ DiscriminatedType(http.request.body) # "null"

\* C26: the agent of every run is the first configured agent, whatever the
\* event's type and issue; with no agent configured every verified, parsed,
\* non-bot event is answered 200 {"status":"no_matching_agent"} and no run is
\* started.
C26_FirstAgentIsSelected ==
    /\ rpc # "idle" => (agents # <<>> /\ run.config = agents[1])
    /\ (AcceptedEvent /\ agents # <<>>) =>
           (Processing /\ run.config = agents[1] /\ run.event = parsedEvent)
    /\ (AcceptedEvent /\ agents = <<>>) =>
           /\ http.status = 200
           /\ http.body = <<"status", "no_matching_agent">>
           /\ ~InTrace("sessionId") /\ ~InTrace("runAgent")
           /\ rpc = "idle" /\ run = NoRun /\ activities = <<>>

\* C26 witness: with two agents configured, a follow-up prompt of a session
\* was given to the first of them and its run has ended
C26_Witness ==
    /\ Len(agents) = 2
    /\ Processing
    /\ parsedEvent.type = "comment_created"
    /\ run.config = Agent1
    /\ rpc = "done"

AllToolKinds == {"tool_use", "server_tool_use", "mcp_tool_use"}

\* the blocks of a content array at a set of indices, in document order
BlocksAt(c, I) == LET asc == Ascending(I) IN [k \in 1..Len(asc) |-> c[asc[k]]]

Max(I) == IF I = {} THEN 0 ELSE CHOOSE x \in I : \A y \in I : y <= x

\* the reports of one completed caller-managed tool turn: the joined text
\* once unless it is empty, then one tool-use report per tool_use block
ToolTurnReports(c) ==
    LET texts == BlocksAt(c, IndicesOf(c, {"text"}))
        joined == Trim(JoinNL([k \in 1..Len(texts) |-> texts[k].text]))
        tools == BlocksAt(c, IndicesOf(c, {"tool_use"}))
    IN (IF joined = EmptyStr THEN <<>> ELSE <<Call("onInterimText", joined, "")>>)
       \o [k \in 1..Len(tools) |-> Call("onToolUse", EmptyStr, tools[k].id)]

\* the reports of all the tool turns recorded in a message buffer
RECURSIVE ReportsOfTurns(_)
ReportsOfTurns(msgs) ==
    IF msgs = <<>> THEN <<>>
    ELSE (IF Head(msgs).kind = "blocks" THEN ToolTurnReports(Head(msgs).blocks)
          ELSE <<>>) \o ReportsOfTurns(Tail(msgs))

\* the callback invocations made for the response that ended the loop: those
\* after the reports of the tool turns before it
LastCalls == SubSeq(cbLog, Len(ReportsOfTurns(messages)) + 1, Len(cbLog))

IsToolUseCall(x) == x.cb = "onToolUse"
IsInterimCall(x) == x.cb = "onInterimText"

\* C27: for a response with a server_tool_use or mcp_tool_use block, the
\* tool-use reports are the tool invocation blocks of the response of all
\* three kinds (tool_use, server_tool_use, mcp_tool_use), each once, in
\* document order.
C27_AllToolBlocksReported ==
    (/\ pc = "returned"
     /\ HasKind(data.content, ServerToolKinds)
     /\ "onToolUse" \in options.callbacks) =>
        LET tools == BlocksAt(data.content, IndicesOf(data.content, AllToolKinds))
        IN SelectSeq(LastCalls, IsToolUseCall) =
               [k \in 1..Len(tools) |-> Call("onToolUse", EmptyStr, tools[k].id)]

\* the split of a server/MCP response at index L: the non-empty text blocks
\* below L are the interim-text reports, one each, in document order, and the
\* text blocks above L, joined with newlines and trimmed, are the answer
SplitAt(L) ==
    LET c == data.content
        below == BlocksAt(c, {i \in IndicesOf(c, {"text"}) : i < L /\ c[i].text # EmptyStr})
        above == BlocksAt(c, {i \in IndicesOf(c, {"text"}) : i > L})
    IN /\ SelectSeq(LastCalls, IsInterimCall) =
              [k \in 1..Len(below) |-> Call("onInterimText", below[k].text, "")]
       /\ ret.content = Trim(JoinNL([k \in 1..Len(above) |-> above[k].text]))

ServerResponseReturned ==
    /\ pc = "returned"
    /\ HasKind(data.content, ServerToolKinds)
    /\ "onInterimText" \in options.callbacks

C29_FinalResponse ==
    (pc = "returned" /\ ~HasKind(data.content, AllToolKinds)) =>
        LET c == data.content
            thoughts == BlocksAt(c, {i \in IndicesOf(c, {"thinking"}) :
                                        c[i].thinking # EmptyStr})
            texts == BlocksAt(c, IndicesOf(c, {"text"}))
        IN /\ LastCalls =
                  (IF "onThinking" \in options.callbacks
                   THEN [k \in 1..Len(thoughts) |->
                            Call("onThinking", thoughts[k].thinking, "")]
                   ELSE <<>>)
           /\ ret.kind = "resolved"
           /\ ret.content = JoinNL([k \in 1..Len(texts) |-> texts[k].text])
           /\ ~continueLoop
           /\ Len(requests) = Len(usageLog)

\* C29 witness: after a tool turn, a response of a thought and a text that
\* starts with a blank; the thought was reported
C29_Witness ==
    /\ pc = "returned"
    /\ Len(requests) = 2
    /\ ~HasKind(data.content, AllToolKinds)
    /\ HasKind(data.content, {"thinking"})
    /\ HasKind(data.content, {"text"})
    /\ ret.content # Trim(ret.content)
    /\ Len(LastCalls) = 1

\* C30: at every request, the reports made so far are those of the
\* caller-managed tool turns in the request's buffer, turn by turn: the text
\* blocks joined and reported once as interim text (not at all when the joined
\* text is empty), then each tool_use block reported once in document order;
\* so all reports of a turn are made before the next request is issued.
C30_ToolTurnReportsInOrder ==
    /\ pc = "awaiting" =>
           /\ requests[Len(requests)] = messages
           /\ cbLog = (IF options.callbacks = {} THEN <<>>
                       ELSE ReportsOfTurns(requests[Len(requests)]))
    /\ pc = "request" =>
           cbLog = (IF options.callbacks = {} THEN <<>> ELSE ReportsOfTurns(messages))

\* C30 witness: the second request was issued after a turn of two texts and
\* a tool_use block, whose joined text and tool call were reported
C30_Witness ==
    /\ pc = "awaiting"
    /\ Len(requests) = 2
    /\ Cardinality(IndicesOf(data.content, {"text"})) = 2
    /\ Len(cbLog) = 2
    /\ cbLog[1].cb = "onInterimText"
    /\ cbLog[2].cb = "onToolUse"

\* continuation mode: a history is supplied and is not empty
Continuation == run.conversationHistory.present /\ Len(run.conversationHistory.msgs) > 0

\* C31: runAgent calls sendMessage in continuation mode exactly when
\* conversationHistory is supplied and non-empty: with the history in its
\* order, then the event's comment body as the last user turn when it is
\* present and not empty, and no userMessage; otherwise with one user message
\* serializing the issue's title, description, state, labels, priority and
\* url, and no conversationMessages. The model receives just that as the first
\* request, and sendMessage never fails its input validation.
C31_ModeFollowsHistory ==
    caller = "runAgent" =>
        LET h == run.conversationHistory.msgs
            c == run.event.comment
            expected ==
                IF Continuation
                THEN h \o (IF c.present /\ c.body # EmptyStr
                           THEN <<[role |-> "user", content |-> c.body]>> ELSE <<>>)
                ELSE <<[role |-> "user", content |-> IssueJson(run.event.issue)]>>
        IN /\ IF Continuation
              THEN /\ ~options.userMessage.present
                   /\ options.conversationMessages.present
                   /\ options.conversationMessages.msgs = expected
              ELSE /\ options.userMessage.present
                   /\ options.userMessage.text = IssueJson(run.event.issue)
                   /\ ~options.conversationMessages.present
           /\ ~(pc = "threw" /\ ret.name = "Error")
           /\ Len(requests) >= 1 =>
                  /\ Len(requests[1]) = Len(expected)
                  /\ \A i \in 1..Len(expected) :
                         /\ requests[1][i].role = expected[i].role
                         /\ requests[1][i].kind = "text"
                         /\ requests[1][i].text = expected[i].content

\* C31 witness: a follow-up prompt with a history of two turns was answered;
\* the model received the two turns and the prompt
C31_Witness ==
    /\ rpc = "done"
    /\ runResult.success
    /\ Continuation
    /\ Len(requests[1]) = 3
    /\ requests[1][3].text = run.event.comment.body


\* the first report of a run: 'Thinking...' on a continuation, 'Analyzing
\* issue...' otherwise
FirstReport ==
    [type |-> "thinking",
     message |-> <<"[Agent: ", run.config.name, "]">> \o
                     (IF Continuation THEN <<" Thinking...">>
                      ELSE <<" Analyzing issue...">>),
     toolName |-> "", issueId |-> run.event.issue.id, sessionId |-> run.sessionId]

\* C32: the first effect of every runAgent invocation is a 'thinking'
\* activity ('Thinking...' in continuation mode, 'Analyzing issue...' in
\* initial mode): its first step reports it and nothing else, no model request
\* is issued before that report completed, and when that report fails no model
\* request is issued at all.
C32_ThinkingComesFirst ==
    /\ [](/\ requests # <<>> => activities # <<>>
          /\ activities # <<>> /\ activities[1] # FirstReport =>
                 requests = <<>> /\ pc = "idle" /\ activities[1].type = "error"
          /\ rpc # "start" /\ activities = <<>> => requests = <<>> /\ pc = "idle"
          /\ rpc = "start" => requests = <<>> /\ activities = <<>>)
    /\ [][rpc = "start" =>
             /\ requests' = <<>>
             /\ \/ activities' = <<FirstReport>>
                \/ activities' = <<>> /\ rpc' = "catch" /\ pc' = "idle"]_vars

\* C32 witness: after the first report of a follow-up run, two model requests
\* were issued
C32_Witness ==
    /\ Continuation
    /\ activities # <<>>
    /\ activities[1] = FirstReport
    /\ Len(requests) = 2

\* C32 witness of the failing report: the run ended with no request
C32_WitnessReportFailed ==
    /\ rpc = "done"
    /\ activities # <<>>
    /\ activities[1].type = "error"
    /\ requests = <<>>


\* a header names a feature
Names(h, feature) == h.present /\ \E i \in 1..Len(h.text) : h.text[i] = feature

\* C33: every request carries the feature opt-in header computed from the
\* call's options: it names 'web-fetch-2025-09-10' exactly when a declared tool
\* has type 'web_fetch_20250910', names 'mcp-client-2025-04-04' exactly when at
\* least one external tool server is declared, and is absent exactly when
\* neither holds; it is the same on every iteration of one call.
C33_BetaHeaderFollowsOptions ==
    /\ Len(headers) = Len(requests)
    /\ \A i \in 1..Len(headers) :
           LET webFetch == /\ options.tools.present
                           /\ "web_fetch_20250910" \in
                                  {options.tools.items[k] :
                                       k \in 1..Len(options.tools.items)}
               mcp == options.mcpServers.present /\ options.mcpServers.items # <<>>
           IN /\ Names(headers[i], "web-fetch-2025-09-10") <=> webFetch
              /\ Names(headers[i], "mcp-client-2025-04-04") <=> mcp
              /\ ~headers[i].present <=> ~webFetch /\ ~mcp
              /\ headers[i] = headers[1]

\* C33 witness: a call declaring a search tool, the fetch tool and a server
\* made two requests, both with the two features
C33_Witness ==
    /\ Len(headers) = 2
    /\ Len(options.tools.items) = 2
    /\ headers[2].text = <<"web-fetch-2025-09-10", ",", "mcp-client-2025-04-04">>

\* C33 witness of the absent header: a call declaring a search tool only
C33_WitnessAbsent ==
    /\ Len(headers) = 2
    /\ options.tools.items = <<"web_search_20250305">>
    /\ ~headers[2].present


\* C34: the loop surfaces its intermediate signals without blocking: issuing
\* the next request and returning the final result are not aborted by the
\* failure of a report, so every response received with status 200 is followed
\* by the next request or by the return of the result, and the run's result
\* does not depend on its reports.
C34_ReportsDoNotBlockTheLoop ==
    [][(caller = "runAgent" /\ pc = "awaiting" /\ status' = 200)
           => /\ pc' \in {"request", "returned"}
              /\ pc' = "request" <=> CallerToolWait(data')]_vars


\* the messages a call starts from: the supplied conversation turn by turn, or
\* the user message alone
SuppliedMessages ==
    IF options.conversationMessages.present
    THEN [i \in 1..Len(options.conversationMessages.msgs) |->
             [role |-> options.conversationMessages.msgs[i].role, kind |-> "text",
              text |-> options.conversationMessages.msgs[i].content,
              blocks |-> <<>>, results |-> <<>>]]
    ELSE <<[role |-> "user", kind |-> "text", text |-> options.userMessage.text,
            blocks |-> <<>>, results |-> <<>>]>>

\* C35: the message buffer is append-only across the iterations of one call:
\* the first request carries the initial messages, each later request's buffer
\* has the previous request's buffer as a prefix and two more entries, an
\* assistant turn immediately followed by a user turn, so the initial messages
\* are never removed, reordered or altered; the running buffer extends the
\* last request's.
C35_BufferIsAppendOnly ==
    /\ Len(requests) >= 1 =>
           /\ requests[1] = SuppliedMessages
           /\ IsPrefix(requests[Len(requests)], messages)
    /\ pc # "called" /\ pc # "threw" /\ caller # "none" => IsPrefix(SuppliedMessages, messages)
    /\ \A i \in 2..Len(requests) :
           LET n == Len(requests[i - 1])
           IN /\ IsPrefix(requests[i - 1], requests[i])
              /\ Len(requests[i]) = n + 2
              /\ requests[i][n + 1].role = "assistant"
              /\ requests[i][n + 1].kind = "blocks"
              /\ requests[i][n + 2].role = "user"
              /\ requests[i][n + 2].kind = "results"
              /\ IsPrefix(SuppliedMessages, requests[i])

\* C35 witness: a call with a conversation of two turns made three requests,
\* the last with six entries
C35_Witness ==
    /\ options.conversationMessages.present
    /\ Len(requests) = 3
    /\ Len(requests[3]) = 6
    /\ SubSeq(requests[3], 1, 2) = requests[1]


\* the request handled last is a verified AgentActivity webhook of a session
\* whose content type is not 'prompt'
AgentPostedActivity ==
    /\ LinearWebhook
    /\ verifyWebhook(webhookSecret, http.request.body, http.request.signature) = "true"
    /\ http.request.body.json = "object"
    /\ http.request.body.type = "AgentActivity"
    /\ http.request.body.agentActivity
    /\ http.request.body.agentSession
    /\ http.request.body.contentType # "prompt"

\* C36: an AgentActivity webhook whose content type is not 'prompt' is parsed
\* to null and answered 200 {"status":"ignored"}; this covers the thought,
\* action, response and error activities the agent itself posts through
\* sendActivity, so none of them starts a new run.
C36_OwnActivitiesAreIgnored ==
    /\ \A t \in {"thinking", "tool_use", "responding", "error", "other"} :
           /\ activityContentType(t) \in {"thought", "action", "response", "error"}
           /\ \A digit \in {"0", "1"} :
                  parseLinearWebhook(Body("object", "AgentActivity", "created", TRUE,
                                          TRUE, activityContentType(t), FALSE, digit))
                      = [throws |-> FALSE, event |-> NullEvent]
    /\ AgentPostedActivity =>
           /\ http.status = 200
           /\ http.body = <<"status", "ignored">>
           /\ parsedEvent = NullEvent
           /\ ~InTrace("runAgent")
           /\ ~InTrace("sessionId")
           /\ rpc = "idle"
           /\ run.sessionId = ""
           /\ activities = <<>>

\* C36 witness: a signed 'response' activity, as the agent's own answer comes
\* back from Linear, was answered ignored by a server with agents
C36_Witness ==
    /\ AgentPostedActivity
    /\ http.request.body.contentType = "response"
    /\ webhookSecret # ""
    /\ agents # <<>>


\* the kinds of event parseLinearWebhook produces
EventKinds(ws) == {eventType(w) : w \in {x \in ws : webhookBranch(x) # "null"}}

C38_TerminalActivities ==
    /\ [](/\ runResult.success =>
                 /\ rpc = "done"
                 /\ Cardinality(ActivitiesOfType({"responding"})) = 1
                 /\ ActivitiesOfType({"error"}) = {}
          /\ Cardinality(ActivitiesOfType({"error"})) <= 1
          /\ ActivitiesOfType({"error"}) # {} =>
                 /\ rpc = "done"
                 /\ runResult.fields = {"success", "error"}
                 /\ ~runResult.success
          /\ ActivitiesOfType({"responding"}) # {} => runResult.success
          /\ ActivitiesOfType({"responding", "error"}) \subseteq {Len(activities)})
    /\ [][ActivitiesOfType({"responding", "error"}) # {} => activities' = activities]_vars

\* C38 witness: a run that reported progress and then its response
C38_Witness ==
    /\ runResult.success
    /\ Len(activities) >= 3
    /\ activities[Len(activities)].type = "responding"

\* C38 witness of the failing run: the response could not be delivered and
\* the error was reported instead
C38_WitnessError ==
    /\ rpc = "done"
    /\ pc = "returned"
    /\ ~runResult.success
    /\ activities[Len(activities)].type = "error"


\* the positions of a stage in the trace of the request handled last
StagesAt(stage) == {i \in 1..Len(trace) : trace[i] = stage}

\* C39: every HTTP request receives exactly one response on every path of the
\* handler: 200 ok, 404, 401, 200 ignored, skipped, no_matching_agent or
\* processing, or 500. The 500 handler never runs after the 200 processing
\* response has been written: the run is dispatched after that response, no
\* response follows it, and no step of the dispatched run, whatever it does,
\* changes the response.
C39_ExactlyOneResponse ==
    /\ [](http.request # NoRequest =>
              /\ Cardinality(StagesAt("respond")) = 1
              /\ http.status \in {200, 401, 404, 500}
              /\ \A i \in StagesAt("runAgent") \cup StagesAt("sessionId") :
                     /\ Processing
                     /\ \A j \in StagesAt("respond") : j < i
              /\ http.status = 500 => StagesAt("runAgent") = {}
              /\ rpc # "idle" => Processing /\ ack = [status |-> 200, body |-> http.body])
    /\ [][rpc # "idle" => http' = http /\ trace' = trace /\ ack' = ack]_vars

\* C39 witness: the run of an accepted event failed after its 200 processing
\* response, which stands
C39_Witness ==
    /\ Processing
    /\ rpc = "done"
    /\ ~runResult.success
    /\ trace[Len(trace)] = "runAgent"

\* C39 witness of the other paths: a request answered 500 by the catch block
C39_WitnessCaught ==
    /\ http.status = 500
    /\ trace = <<"readBody", "verify", "JSON.parse", "parse", "respond">>


====
